---- MODULE Spec2Model ----
(***************************************************************************)
(* Model of the payment reconciler's reconciliation engine (processFiles   *)
(* of utils/parser.ts) and of the JavaScript value operations it uses.     *)
(*                                                                         *)
(* Strings are sequences of one-character strings, so that startsWith,     *)
(* replace, toString, parseFloat, join and localeCompare are computed      *)
(* character by character.  Amounts are integers (minor units).            *)
(***************************************************************************)
EXTENDS Integers, Sequences, FiniteSets, TLC

VARIABLES
  excelData,              \* ExcelRow[] passed to processFiles
  msgTransactions,        \* MsgTransaction[] collected by the caller
  pc,                     \* "ready" | "reconciled" | "done"
  uniqueMsgTransactions,  \* processFiles: the deduplicated transactions
  matchedAuthIds,         \* processFiles: Set of the authIds of join hits
  updatedData,            \* processFiles: excelData.map(...) before sorting
  result,                 \* ProcessedResult of processFiles(excelData, msgTransactions)
  resultAgain,            \* ProcessedResult when the same list was added twice
  content,                \* the text handed to parseMsgContent
  excelFile,              \* App state: the uploaded workbook
  msgFiles,               \* App state: the uploaded files, in order
  isProcessing,           \* App state
  error,                  \* App state: "null" or the message shown
  fileIssues,             \* App state: the issues shown
  issues,                 \* handleProcess: the issues collected so far
  consumedPdfNames,       \* handleProcess: Set of lower-case PDF names
  cursor,                 \* handleProcess: the turn of the two loops
  calls                   \* the parser and reader calls of the run, in order

vars == <<excelData, msgTransactions, pc, uniqueMsgTransactions,
          matchedAuthIds, updatedData, result, resultAgain, content,
          excelFile, msgFiles, isProcessing, error, fileIssues, issues,
          consumedPdfNames, cursor, calls>>

runVars == <<excelFile, msgFiles, isProcessing, error, fileIssues, issues,
             consumedPdfNames, cursor, calls>>

-----------------------------------------------------------------------------
(* JavaScript values held in a spreadsheet cell or an output cell.         *)

Undef == [t |-> "undefined", s |-> <<>>, n |-> 0]

Str(s) == [t |-> "string", s |-> s, n |-> 0]

Num(n) == [t |-> "number", s |-> <<>>, n |-> n]

\* the cell '' used for every blank column
Blank == Str(<<>>)

\* ToBoolean: undefined, '' and 0 are falsy
Truthy(v) ==
  CASE v.t = "undefined" -> FALSE
    [] v.t = "string" -> v.s # <<>>
    [] v.t = "number" -> v.n # 0

Digits == <<"0", "1", "2", "3", "4", "5", "6", "7", "8", "9">>

IsDigit(c) == \E d \in 1..10 : Digits[d] = c

DigitVal(c) == (CHOOSE d \in 1..10 : Digits[d] = c) - 1

\* Number.prototype.toString for a non-negative integer
RECURSIVE NumToString(_)
NumToString(n) ==
  IF n < 10 THEN <<Digits[n + 1]>>
  ELSE NumToString(n \div 10) \o <<Digits[(n % 10) + 1]>>

\* value.toString() of a string or a number
JsToString(v) == IF v.t = "number" THEN NumToString(v.n) ELSE v.s

\* s.replace(/,/g, '')
RemoveCommas(s) == SelectSeq(s, LAMBDA c : c # ",")

\* s.startsWith('0')
StartsWithZero(s) == Len(s) > 0 /\ s[1] = "0"

\* s.replace(/^0+/, '')
RECURSIVE StripLeadingZeros(_)
StripLeadingZeros(s) ==
  IF StartsWithZero(s) THEN StripLeadingZeros(Tail(s)) ELSE s

IsSpace(c) == c = " "

\* s.trim()
RECURSIVE TrimLeft(_)
TrimLeft(s) == IF Len(s) > 0 /\ IsSpace(s[1]) THEN TrimLeft(Tail(s)) ELSE s

RECURSIVE TrimRight(_)
TrimRight(s) ==
  IF Len(s) > 0 /\ IsSpace(s[Len(s)]) THEN TrimRight(SubSeq(s, 1, Len(s) - 1))
  ELSE s

Trim(s) == TrimRight(TrimLeft(s))

\* the longest prefix of decimal digits of s
RECURSIVE DigitPrefix(_)
DigitPrefix(s) ==
  IF Len(s) > 0 /\ IsDigit(s[1]) THEN <<s[1]>> \o DigitPrefix(Tail(s)) ELSE <<>>

\* the number written by a non-empty sequence of decimal digits
RECURSIVE DigitsValue(_)
DigitsValue(ds) ==
  IF Len(ds) = 0 THEN 0
  ELSE 10 * DigitsValue(SubSeq(ds, 1, Len(ds) - 1)) + DigitVal(ds[Len(ds)])

\* parseFloat(s) on strings without sign, decimal point or exponent: leading
\* white space is skipped, the longest numeric prefix is converted and
\* whatever follows it is ignored; NaN when there is no numeric prefix.
ParseFloat(s) ==
  LET p == DigitPrefix(TrimLeft(s))
  IN  IF p = <<>> THEN [nan |-> TRUE, v |-> 0]
      ELSE [nan |-> FALSE, v |-> DigitsValue(p)]

-----------------------------------------------------------------------------
(* processFiles, step by step.                                             *)

\* [authId, merchantNumber, cardNumber, tranAmount, commission,
\*  netAmount].join('|')
TransactionKey(t) ==
  t.authId \o <<"|">> \o t.merchantNumber \o <<"|">> \o t.cardNumber \o <<"|">>
    \o NumToString(t.tranAmount) \o <<"|">> \o NumToString(t.commission)
    \o <<"|">> \o NumToString(t.netAmount)

\* msgTransactions.filter(t => ...) with the seenTransactions set
RECURSIVE FilterSeen(_, _)
FilterSeen(ts, seenTransactions) ==
  IF ts = <<>> THEN <<>>
  ELSE LET key == TransactionKey(Head(ts))
       IN  IF key \in seenTransactions
           THEN FilterSeen(Tail(ts), seenTransactions)
           ELSE <<Head(ts)>> \o FilterSeen(Tail(ts), seenTransactions \cup {key})

\* no deduplication: every transaction of the list is kept
UniqueMsgTransactions_KeepAll(ts) == ts

UniqueMsgTransactions(ts) == FilterSeen(ts, {})

\* a key that is in the map keeps its transaction
MapSet_KeepFirst(m, key, t) ==
  [k \in DOMAIN m \cup {key} |-> IF k \in DOMAIN m THEN m[k] ELSE t]

\* msgMap.set(key, t)
MapSet(m, key, t) ==
  [k \in DOMAIN m \cup {key} |-> IF k = key THEN t ELSE m[k]]

\* uniqueMsgTransactions.forEach(t => msgMap.set(t.authId, t))
RECURSIVE MsgMapFrom(_, _)
MsgMapFrom(ts, m) ==
  IF ts = <<>> THEN m
  ELSE MsgMapFrom(Tail(ts), MapSet(m, Head(ts).authId, Head(ts)))

\* the map keyed by the authId without its leading zeros
MsgMap_StrippedKeys(unique) ==
  MsgMapFrom([k \in DOMAIN unique |->
                [unique[k] EXCEPT !.authId = StripLeadingZeros(@)]], <<>>)

MsgMap(unique) == MsgMapFrom(unique, <<>>)

NoTransaction ==
  [merchantNumber |-> <<>>, cardNumber |-> <<>>, tranAmount |-> 0,
   commission |-> 0, netAmount |-> 0, authId |-> <<>>]

\* msgMap.get(key): the transaction, or undefined
MapGet(m, key) ==
  IF key \in DOMAIN m THEN [found |-> TRUE, t |-> m[key]]
  ELSE [found |-> FALSE, t |-> NoTransaction]

\* the lookup with the stripped voucher tried before the exact one
FindMatch_StrippedFirst(msgMap, row) ==
  LET voucherNo == row.Voucher_No
  IN  IF Truthy(voucherNo)
      THEN LET stripped ==
                 IF voucherNo.t = "string" /\ StartsWithZero(voucherNo.s)
                 THEN MapGet(msgMap, StripLeadingZeros(voucherNo.s))
                 ELSE [found |-> FALSE, t |-> NoTransaction]
           IN  IF stripped.found THEN stripped
               ELSE MapGet(msgMap, JsToString(voucherNo))
      ELSE [found |-> FALSE, t |-> NoTransaction]

\* the lookup of one row: exact voucher first, then the voucher without its
\* leading zeros when it is a string that starts with '0'
FindMatch(msgMap, row) ==
  LET voucherNo == row.Voucher_No
  IN  IF Truthy(voucherNo)
      THEN LET match == MapGet(msgMap, JsToString(voucherNo))
           IN  IF ~match.found /\ voucherNo.t = "string"
                  /\ StartsWithZero(voucherNo.s)
               THEN MapGet(msgMap, StripLeadingZeros(voucherNo.s))
               ELSE match
      ELSE [found |-> FALSE, t |-> NoTransaction]

\* typeof row['Total'] === 'number' ? row['Total']
\*   : parseFloat((row['Total'] || '0').toString().replace(/,/g, ''))
ExistingTotal(row) ==
  IF row.Total.t = "number" THEN [nan |-> FALSE, v |-> row.Total.n]
  ELSE ParseFloat(RemoveCommas(
         IF Truthy(row.Total) THEN JsToString(row.Total) ELSE <<"0">>))

\* the row is not spread into the new object
AugmentRow_NoSpread(row, match) ==
  [Hash |-> Blank, Voucher_No |-> row.Voucher_No, Total |-> Blank,
   AUTH |-> IF match.found THEN Str(match.t.authId) ELSE Blank,
   MERCHANT_NUMBER |-> Blank, TRX_AMT |-> Blank, CARD_NUMBER |-> Blank,
   COM_AMOUNT |-> Blank, NET_AMT |-> Blank]

\* { ...row, AUTH: ..., 'MERCHANT NUMBER': ..., ... } of either branch
AugmentRow(row, match) ==
  IF match.found
  THEN [Hash |-> row.Hash, Voucher_No |-> row.Voucher_No, Total |-> row.Total,
        AUTH |-> Str(match.t.authId),
        MERCHANT_NUMBER |-> Str(match.t.merchantNumber),
        TRX_AMT |-> Num(match.t.tranAmount),
        CARD_NUMBER |-> Str(match.t.cardNumber),
        COM_AMOUNT |-> Num(match.t.commission),
        NET_AMT |-> Num(match.t.netAmount)]
  ELSE [Hash |-> row.Hash, Voucher_No |-> row.Voucher_No, Total |-> row.Total,
        AUTH |-> Blank, MERCHANT_NUMBER |-> Blank, TRX_AMT |-> Blank,
        CARD_NUMBER |-> Blank, COM_AMOUNT |-> Blank, NET_AMT |-> Blank]

\* the running totals before the first row
InitialTotals ==
  [totalExisting |-> 0, totalTrx |-> 0, totalCommission |-> 0, totalNet |-> 0,
   matchedCount |-> 0, matchedAuthIds |-> {}, updatedData |-> <<>>]

\* total += amount inside if (match), written = instead of +=
Accumulate_Assign(total, match, amount) ==
  IF match.found THEN amount ELSE total

\* if (match) { total += amount }
Accumulate(total, match, amount) ==
  IF match.found THEN total + amount ELSE total

\* one call of the excelData.map callback: the totals after the row
MapRow(acc, msgMap, row) ==
  LET match == FindMatch(msgMap, row)
      existingTotal == ExistingTotal(row)
  IN  [totalExisting |->
         IF ~existingTotal.nan THEN acc.totalExisting + existingTotal.v
         ELSE acc.totalExisting,
       totalTrx |-> Accumulate(acc.totalTrx, match, match.t.tranAmount),
       totalCommission |->
         Accumulate(acc.totalCommission, match, match.t.commission),
       totalNet |-> Accumulate(acc.totalNet, match, match.t.netAmount),
       matchedCount |-> Accumulate(acc.matchedCount, match, 1),
       matchedAuthIds |->
         IF match.found THEN acc.matchedAuthIds \cup {match.t.authId}
         ELSE acc.matchedAuthIds,
       updatedData |-> Append(acc.updatedData, AugmentRow(row, match))]

\* excelData.map(row => ...), rows in order
RECURSIVE MapRows(_, _, _)
MapRows(rows, msgMap, acc) ==
  IF rows = <<>> THEN acc
  ELSE MapRows(Tail(rows), msgMap, MapRow(acc, msgMap, Head(rows)))

\* one row of the unmatched appendix
UnmatchedRow(t) ==
  [Hash |-> Blank, Voucher_No |-> Blank, Total |-> Blank,
   AUTH |-> Str(t.authId), MERCHANT_NUMBER |-> Str(t.merchantNumber),
   TRX_AMT |-> Num(t.tranAmount), CARD_NUMBER |-> Str(t.cardNumber),
   COM_AMOUNT |-> Num(t.commission), NET_AMT |-> Num(t.netAmount)]

\* the appendix without its filter: every deduplicated transaction listed
UnmatchedRows_NoFilter(unique, matched) ==
  [i \in 1..Len(unique) |-> UnmatchedRow(unique[i])]

\* the appendix left out
UnmatchedRows_None(unique, matched) == <<>>

\* uniqueMsgTransactions.filter(t => !matchedAuthIds.has(t.authId)).map(...)
RECURSIVE UnmatchedRows(_, _)
UnmatchedRows(unique, matched) ==
  IF unique = <<>> THEN <<>>
  ELSE IF Head(unique).authId \in matched
       THEN UnmatchedRows(Tail(unique), matched)
       ELSE <<UnmatchedRow(Head(unique))>> \o UnmatchedRows(Tail(unique), matched)

\* a.localeCompare(b) without { numeric: true }: digit by digit
RECURSIVE LocaleCompareNumeric_Lexical(_, _)
LocaleCompareNumeric_Lexical(a, b) ==
  IF a = <<>> /\ b = <<>> THEN 0
  ELSE IF a = <<>> THEN -1
  ELSE IF b = <<>> THEN 1
  ELSE IF DigitVal(a[1]) < DigitVal(b[1]) THEN -1
  ELSE IF DigitVal(a[1]) > DigitVal(b[1]) THEN 1
  ELSE LocaleCompareNumeric_Lexical(Tail(a), Tail(b))

\* a.localeCompare(b, undefined, { numeric: true }) on strings of decimal
\* digits: the empty string sorts first, digit runs compare by the number
\* they write (leading zeros carry no weight), the sign is returned
LocaleCompareNumeric(a, b) ==
  IF a = b THEN 0
  ELSE IF a = <<>> THEN -1
  ELSE IF b = <<>> THEN 1
  ELSE IF DigitsValue(a) < DigitsValue(b) THEN -1
  ELSE IF DigitsValue(a) > DigitsValue(b) THEN 1
  ELSE 0

\* (cell || '').toString().trim()
CellText(v) == Trim(IF Truthy(v) THEN JsToString(v) ELSE <<>>)

\* the comparator of both sorts: negative when a goes before b
byMerchantNumber(a, b) ==
  LET merchantA == CellText(a.MERCHANT_NUMBER)
      merchantB == CellText(b.MERCHANT_NUMBER)
      merchantCompare == LocaleCompareNumeric(merchantA, merchantB)
  IN  IF merchantA = <<>> /\ merchantB # <<>> THEN 1
      ELSE IF merchantA # <<>> /\ merchantB = <<>> THEN -1
      ELSE IF merchantCompare # 0 THEN merchantCompare
      ELSE LocaleCompareNumeric(CellText(a.AUTH), CellText(b.AUTH))

\* sorted with x inserted behind every element that does not go after it
RECURSIVE InsertSorted(_, _)
InsertSorted(sorted, x) ==
  IF sorted = <<>> THEN <<x>>
  ELSE IF byMerchantNumber(Head(sorted), x) > 0 THEN <<x>> \o sorted
       ELSE <<Head(sorted)>> \o InsertSorted(Tail(sorted), x)

\* Array.prototype.sort is stable: equal rows keep their input order
RECURSIVE SortInto(_, _)
SortInto(rows, sorted) ==
  IF rows = <<>> THEN sorted
  ELSE SortInto(Tail(rows), InsertSorted(sorted, Head(rows)))

\* [...rows].sort(byMerchantNumber)
SortByMerchantNumber(rows) == SortInto(rows, <<>>)

TotalsRow(summary) ==
  [Hash |-> Blank, Voucher_No |-> Str(<<"T", "O", "T", "A", "L">>),
   Total |-> Num(summary.totalExisting), AUTH |-> Blank,
   MERCHANT_NUMBER |-> Blank, TRX_AMT |-> Num(summary.totalTrx),
   CARD_NUMBER |-> Blank, COM_AMOUNT |-> Num(summary.totalCommission),
   NET_AMT |-> Num(summary.totalNet)]

SpacerRow ==
  [Hash |-> Blank, Voucher_No |-> Blank, Total |-> Blank, AUTH |-> Blank,
   MERCHANT_NUMBER |-> Blank, TRX_AMT |-> Blank, CARD_NUMBER |-> Blank,
   COM_AMOUNT |-> Blank, NET_AMT |-> Blank]

\* Array.from({ length: 5 }, ...)
SpacerCount == 5

SpacerRows == [i \in 1..SpacerCount |-> SpacerRow]

UnmatchedHeaderRow ==
  [Hash |-> Blank, Voucher_No |-> Blank, Total |-> Blank,
   AUTH |-> Str(<<"A", "U", "T", "H">>),
   MERCHANT_NUMBER |-> Str(<<"M", "E", "R", "C", "H", "A", "N", "T", " ",
                             "N", "U", "M", "B", "E", "R">>),
   TRX_AMT |-> Str(<<"T", "R", "X", ".", "A", "M", "T">>),
   CARD_NUMBER |-> Str(<<"C", "A", "R", "D", " ", "N", "U", "M", "B", "E", "R">>),
   COM_AMOUNT |-> Str(<<"C", "O", "M", ".", " ", "A", "M", "O", "U", "N", "T">>),
   NET_AMT |-> Str(<<"N", "E", "T", ".", " ", "A", "M", "T">>)]

\* the appendix header put right behind the totals row
AssembleTable_HeaderFirst(groupedUpdatedData, summary, groupedUnmatchedRows) ==
  groupedUpdatedData \o <<TotalsRow(summary)>> \o <<UnmatchedHeaderRow>>
    \o SpacerRows \o groupedUnmatchedRows

\* [...groupedUpdatedData, totalsRow, ...spacerRows, unmatchedHeaderRow,
\*  ...groupedUnmatchedRows]
AssembleTable(groupedUpdatedData, summary, groupedUnmatchedRows) ==
  groupedUpdatedData \o <<TotalsRow(summary)>> \o SpacerRows
    \o <<UnmatchedHeaderRow>> \o groupedUnmatchedRows

\* processFiles(excelData, msgTransactions): the returned ProcessedResult
\* with the function's locals next to it
processFiles(excel, transactions) ==
  LET unique == UniqueMsgTransactions(transactions)
      acc == MapRows(excel, MsgMap(unique), InitialTotals)
      unmatchedRows == UnmatchedRows(unique, acc.matchedAuthIds)
      summary == [totalExisting |-> acc.totalExisting,
                  totalTrx |-> acc.totalTrx,
                  totalCommission |-> acc.totalCommission,
                  totalNet |-> acc.totalNet,
                  matchedCount |-> acc.matchedCount]
  IN  [uniqueMsgTransactions |-> unique,
       matchedAuthIds |-> acc.matchedAuthIds,
       mapped |-> acc.updatedData,
       updatedData |-> AssembleTable(SortByMerchantNumber(acc.updatedData),
                                     summary,
                                     SortByMerchantNumber(unmatchedRows)),
       summary |-> summary]

\* the ProcessedResult alone
ResultOf(p) == [updatedData |-> p.updatedData, summary |-> p.summary]

NoResult == [updatedData |-> <<>>,
             summary |-> [totalExisting |-> 0, totalTrx |-> 0,
                          totalCommission |-> 0, totalNet |-> 0,
                          matchedCount |-> 0]]

-----------------------------------------------------------------------------
(* Text operations of the parsers: includes, case folding, split.          *)

UpperLetters ==
  <<"A", "B", "C", "D", "E", "F", "G", "H", "I", "J", "K", "L", "M", "N",
    "O", "P", "Q", "R", "S", "T", "U", "V", "W", "X", "Y", "Z">>

LowerLetters ==
  <<"a", "b", "c", "d", "e", "f", "g", "h", "i", "j", "k", "l", "m", "n",
    "o", "p", "q", "r", "s", "t", "u", "v", "w", "x", "y", "z">>

LowerChar(c) ==
  IF \E k \in DOMAIN UpperLetters : UpperLetters[k] = c
  THEN LowerLetters[CHOOSE k \in DOMAIN UpperLetters : UpperLetters[k] = c]
  ELSE c

UpperChar(c) ==
  IF \E k \in DOMAIN LowerLetters : LowerLetters[k] = c
  THEN UpperLetters[CHOOSE k \in DOMAIN LowerLetters : LowerLetters[k] = c]
  ELSE c

\* s.toLowerCase()
ToLowerCase(s) == [k \in DOMAIN s |-> LowerChar(s[k])]

\* s.toUpperCase()
ToUpperCase(s) == [k \in DOMAIN s |-> UpperChar(s[k])]

\* Op of the value of v, which is computed once
With(v, Op(_)) == CHOOSE r \in {Op(x) : x \in {v}} : TRUE

\* pat occurs in s at position k
OccursAt(s, k, pat) ==
  /\ k >= 1
  /\ k + Len(pat) - 1 <= Len(s)
  /\ \A j \in 1..Len(pat) : s[k + j - 1] = pat[j]

\* s.includes(pat)
Includes(s, pat) ==
  \E t \in {s} : \E k \in 1..(Len(t) + 1) : OccursAt(t, k, pat)

\* s.endsWith(pat)
EndsWith(s, pat) == \E t \in {s} : OccursAt(t, Len(t) - Len(pat) + 1, pat)

\* the position after the white space that starts at position k
RECURSIVE SkipSpaces(_, _)
SkipSpaces(s, k) ==
  IF k <= Len(s) /\ IsSpace(s[k]) THEN SkipSpaces(s, k + 1) ELSE k

\* the first position from k on where test holds, Len(s) + 1 when none does
FirstFrom(s, k, test(_)) ==
  LET hits == {j \in k..Len(s) : test(j)}
  IN  IF hits = {} THEN Len(s) + 1
      ELSE CHOOSE j \in hits : \A h \in hits : j <= h

\* content.split('\n')
RECURSIVE LinesFrom(_, _)
LinesFrom(s, k) ==
  LET j == FirstFrom(s, k, LAMBDA i : s[i] = "\n")
  IN  <<SubSeq(s, k, j - 1)>> \o (IF j > Len(s) THEN <<>> ELSE LinesFrom(s, j + 1))

SplitLines(s) == LinesFrom(s, 1)

\* s.split(/\s{2,}/): a run of two or more white-space characters separates
\* two parts, a single one belongs to the part around it
RECURSIVE PartsFrom(_, _)
PartsFrom(s, k) ==
  LET j == FirstFrom(s, k, LAMBDA i : /\ i < Len(s)
                                      /\ IsSpace(s[i])
                                      /\ IsSpace(s[i + 1]))
  IN  <<SubSeq(s, k, j - 1)>>
        \o (IF j > Len(s) THEN <<>> ELSE PartsFrom(s, SkipSpaces(s, j)))

\* every run of white space separates two parts
RECURSIVE WordsFrom(_, _)
WordsFrom(s, k) ==
  LET j == FirstFrom(s, k, LAMBDA i : IsSpace(s[i]))
  IN  <<SubSeq(s, k, j - 1)>>
        \o (IF j > Len(s) THEN <<>> ELSE WordsFrom(s, SkipSpaces(s, j)))

SplitWide_EverySpace(s) == WordsFrom(s, 1)

SplitWide(s) == PartsFrom(s, 1)

\* the hundredths written by the digits after a decimal point
Hundredths(fraction) ==
  CASE Len(fraction) = 0 -> 0
    [] Len(fraction) = 1 -> 10 * DigitVal(fraction[1])
    [] Len(fraction) = 2 -> DigitsValue(fraction)

\* parseFloat(s) of an amount, in hundredths: digits, then optionally a
\* decimal point and digits; what follows is ignored; NaN when neither the
\* integer part nor the fraction has a digit.  Amounts are written with at
\* most two decimals.
ParseAmount(s) ==
  LET t == TrimLeft(s)
      whole == DigitPrefix(t)
      rest == SubSeq(t, Len(whole) + 1, Len(t))
      fraction ==
        IF Len(rest) > 0 /\ rest[1] = "." THEN DigitPrefix(Tail(rest)) ELSE <<>>
  IN  IF whole = <<>> /\ fraction = <<>> THEN [nan |-> TRUE, v |-> 0]
      ELSE [nan |-> FALSE, v |-> 100 * DigitsValue(whole) + Hundredths(fraction)]

\* a parsed amount as the number stored in a transaction
AmountOf(p) == CASE ~p.nan -> p.v

-----------------------------------------------------------------------------
(* parseMsgContent: the fixed-width statement log.                         *)

MerchantLabel ==
  <<"m", "e", "r", "c", "h", "a", "n", "t", " ", "n", "u", "m", "b", "e",
    "r">>

\* line.match(/MERCHANT NUMBER\s*:\s*(\d+)/i) with the label at position k
MerchantMatchAt(line, k) ==
  LET colon == SkipSpaces(line, k + Len(MerchantLabel))
      digits ==
        IF colon <= Len(line) /\ line[colon] = ":"
        THEN DigitPrefix(SubSeq(line, SkipSpaces(line, colon + 1), Len(line)))
        ELSE <<>>
  IN  IF digits # <<>>
      THEN [found |-> TRUE, digits |-> digits]
      ELSE [found |-> FALSE, digits |-> <<>>]

\* the leftmost match of merchantRegex in the line
MerchantMatch(line) ==
  LET labels ==
        {k \in 1..Len(line) :
           /\ k + Len(MerchantLabel) - 1 <= Len(line)
           /\ \A j \in 1..Len(MerchantLabel) :
                LowerChar(line[k + j - 1]) = MerchantLabel[j]}
      hits == {k \in labels : MerchantMatchAt(line, k).found}
  IN  IF hits = {} THEN [found |-> FALSE, digits |-> <<>>]
      ELSE MerchantMatchAt(line, CHOOSE k \in hits : \A h \in hits : k <= h)

VisaMasterHeader ==
  <<"V", "i", "s", "a", " ", "/", " ", "M", "a", "s", "t", "e", "r", " ",
    "T", "r", "a", "n", "s", "a", "c", "t", "i", "o", "n", "s">>

TableMarker == <<"=", "=", "=", "=", "=">>

IsCardChar(c) == c = "X" \/ IsDigit(c)

\* s.match(/^\d{6}[X\d]+\d{4}/)
StartsWithCardNumber(s) ==
  /\ Len(s) >= 11
  /\ \A k \in 1..6 : IsDigit(s[k])
  /\ \E n \in 1..(Len(s) - 10) :
       /\ \A k \in 7..(6 + n) : IsCardChar(s[k])
       /\ \A k \in (7 + n)..(10 + n) : IsDigit(s[k])

\* the transaction of a data line, if its parts are enough
TransactionsOfLine(line, merchantNumber) ==
  With(SplitWide(Trim(line)),
       LAMBDA parts :
         IF Len(parts) >= 9
         THEN <<[merchantNumber |-> merchantNumber,
                 cardNumber |-> parts[1],
                 tranAmount |-> AmountOf(ParseAmount(RemoveCommas(parts[4]))),
                 commission |-> AmountOf(ParseAmount(RemoveCommas(parts[6]))),
                 netAmount |-> AmountOf(ParseAmount(RemoveCommas(parts[7]))),
                 authId |-> parts[9]]>>
         ELSE <<>>)

\* the merchant number is looked up on the line and not kept
ParseLine_NoCarry(st, line) ==
  LET merchantNumber == MerchantMatch(line).digits
  IN  IF Includes(line, VisaMasterHeader) \/ Includes(line, TableMarker)
      THEN [st EXCEPT !.merchantNumber = merchantNumber]
      ELSE IF StartsWithCardNumber(Trim(line))
      THEN [st EXCEPT !.merchantNumber = merchantNumber,
                      !.transactions =
                         st.transactions \o TransactionsOfLine(line, merchantNumber)]
      ELSE [st EXCEPT !.merchantNumber = merchantNumber]

\* one turn of the loop over the lines
ParseLine(st, line) ==
  LET merchantMatch == MerchantMatch(line)
      merchantNumber ==
        IF merchantMatch.found THEN merchantMatch.digits ELSE st.merchantNumber
  IN  IF Includes(line, VisaMasterHeader)
      THEN [st EXCEPT !.merchantNumber = merchantNumber]
      ELSE IF Includes(line, TableMarker)
      THEN [st EXCEPT !.merchantNumber = merchantNumber,
                      !.inTable = ~st.inTable]
      ELSE IF StartsWithCardNumber(Trim(line))
      THEN [st EXCEPT !.merchantNumber = merchantNumber,
                      !.transactions =
                         st.transactions \o TransactionsOfLine(line, merchantNumber)]
      ELSE [st EXCEPT !.merchantNumber = merchantNumber]

\* the loop over the lines, from line k on
RECURSIVE ParseLines(_, _, _)
ParseLines(st, lines, k) ==
  IF k > Len(lines) THEN st
  ELSE With(ParseLine(st, lines[k]), LAMBDA next : ParseLines(next, lines, k + 1))

parseMsgContent(text) ==
  With(SplitLines(text),
       LAMBDA lines :
         ParseLines([merchantNumber |-> <<>>, inTable |-> FALSE,
                     transactions |-> <<>>], lines, 1).transactions)

-----------------------------------------------------------------------------
(* The inputs of a run: bounded lists of spreadsheet rows and transactions. *)

MaxRows == 2
MaxTx == 2
MaxRowsSort == 2
MaxTxSort == 4
MaxRowsTotals == 2
MaxTxTotals == 1

SeqsUpTo(S, n) == UNION {[1..k -> S] : k \in 0..n}

\* the decoded sheet: '#' numbers the rows, the other two columns are free
SheetsOf(vouchers, totals, n) ==
  {[i \in 1..Len(c) |->
      [Hash |-> Num(i), Voucher_No |-> c[i][1], Total |-> c[i][2]]] :
     c \in SeqsUpTo(vouchers \X totals, n)}

\* two statement lines that differ in every field but the authId
LineA(authId, merchantNumber) ==
  [merchantNumber |-> merchantNumber, cardNumber |-> <<"5", "X", "1">>,
   tranAmount |-> 5, commission |-> 1, netAmount |-> 4, authId |-> authId]

LineB(authId, merchantNumber) ==
  [merchantNumber |-> merchantNumber, cardNumber |-> <<"5", "X", "2">>,
   tranAmount |-> 3, commission |-> 0, netAmount |-> 3, authId |-> authId]

JoinVouchers ==
  {Undef, Num(0), Num(7), Str(<<"0">>), Str(<<"0", "7">>), Str(<<"7">>)}

JoinAuthIds == {<<>>, <<"7">>, <<"0", "7">>}

JoinTransactions ==
  {LineA(a, <<"2">>) : a \in JoinAuthIds}
    \cup {LineB(a, <<"1", "0">>) : a \in JoinAuthIds}

SortVouchers == {Str(<<"7">>), Str(<<"1", "0">>)}

SortTransactions ==
  {LineA(<<"7">>, m) : m \in {<<>>, <<"2">>, <<"1", "0">>}}
    \cup {LineA(<<"1", "0">>, m) : m \in {<<>>, <<"1", "0">>}}

TotalsValues ==
  {Undef, Blank, Num(4), Str(<<"1", "2">>), Str(<<"1", ",", "0", "0", "0">>),
   Str(<<"a", "b", "c">>), Str(<<"1", "2", "a">>)}

TotalsVouchers == {Undef, Str(<<"7">>)}

TotalsTransactions == {LineA(<<"7">>, <<"2">>)}

\* nothing computed yet
Idle ==
  /\ uniqueMsgTransactions = <<>>
  /\ matchedAuthIds = {}
  /\ updatedData = <<>>
  /\ result = NoResult
  /\ resultAgain = NoResult

NoExcelFile == [present |-> FALSE, readable |-> FALSE, rows |-> <<>>]

\* the component after construction and the locals of handleProcess before
\* a run
NoRun ==
  /\ isProcessing = FALSE
  /\ error = "null"
  /\ fileIssues = <<>>
  /\ issues = <<>>
  /\ consumedPdfNames = {}
  /\ cursor = 0
  /\ calls = <<>>

\* the state before processFiles is called
Start ==
  /\ pc = "ready"
  /\ content = <<>>
  /\ Idle
  /\ excelFile = NoExcelFile
  /\ msgFiles = <<>>
  /\ NoRun

Init ==
  /\ excelData \in SheetsOf(JoinVouchers, {Num(4)}, MaxRows)
  /\ msgTransactions \in SeqsUpTo(JoinTransactions, MaxTx)
  /\ Start

InitSort ==
  /\ excelData \in SheetsOf(SortVouchers, {Num(4)}, MaxRowsSort)
  /\ msgTransactions \in SeqsUpTo(SortTransactions, MaxTxSort)
  /\ Start

InitTotals ==
  /\ excelData \in SheetsOf(TotalsVouchers, TotalsValues, MaxRowsTotals)
  /\ msgTransactions \in SeqsUpTo(TotalsTransactions, MaxTxTotals)
  /\ Start

\* handleProcess step 3: processFiles(excelData, msgTransactions)
Reconcile ==
  /\ pc = "ready"
  /\ LET p == processFiles(excelData, msgTransactions)
     IN  /\ uniqueMsgTransactions' = p.uniqueMsgTransactions
         /\ matchedAuthIds' = p.matchedAuthIds
         /\ updatedData' = p.mapped
         /\ result' = ResultOf(p)
  /\ pc' = "reconciled"
  /\ UNCHANGED <<excelData, msgTransactions, resultAgain, content>>
  /\ UNCHANGED runVars

\* the same run with every source file added twice
ReconcileAgain ==
  /\ pc = "reconciled"
  /\ resultAgain' =
       ResultOf(processFiles(excelData, msgTransactions \o msgTransactions))
  /\ pc' = "done"
  /\ UNCHANGED <<excelData, msgTransactions, uniqueMsgTransactions,
                 matchedAuthIds, updatedData, result, content>>
  /\ UNCHANGED runVars

Next == Reconcile \/ ReconcileAgain

Spec == Init /\ [][Next]_vars

SpecSort == InitSort /\ [][Next]_vars

SpecTotals == InitTotals /\ [][Next]_vars

-----------------------------------------------------------------------------
(* parseMsgContent on the text of a statement log.                         *)

MaxLines == 3

\* the data line of the statement layout
ExampleLine ==
  <<"5", "3", "2", "0", "1", "6", "X", "X", "X", "X", "X", "X", "3", "0",
    "3", "2", " ", " ", "E", "D", "C", " ", " ", "1", "4", "4", " ", " ",
    "4", "9", ",", "9", "0", "0", ".", "0", "0", " ", " ", "4", "9", ",",
    "9", "0", "0", ".", "0", "0", " ", " ", "8", "9", "8", ".", "2", "0",
    " ", " ", "4", "9", ",", "0", "0", "1", ".", "8", "0", " ", " ", "0",
    "2", "/", "0", "2", "/", "2", "0", "2", "6", " ", " ", "0", "7", "4",
    "6", "8", "0", " ", " ", "3", "7", "0", "1", "2", "2", "5", "2">>

\* a data line with white space around it, a single space inside a part and
\* nine parts
PaddedLine ==
  <<" ", " ", " ", "4", "1", "1", "1", "1", "1", "X", "X", "1", "1", "1",
    "1", " ", " ", "E", "D", "C", " ", "2", " ", " ", "1", "4", "4", " ",
    " ", "1", ",", "0", "1", "0", ".", "5", "0", " ", " ", "1", ",", "0",
    "0", "0", ".", "0", "0", " ", " ", "1", "0", ".", "5", " ", " ", "1",
    ",", "0", "0", "0", " ", " ", "0", "2", "/", "0", "2", "/", "2", "0",
    "2", "6", " ", " ", "A", "1", " ", " ", " ">>

\* a data line that stops after the eighth part
ShortLine ==
  <<"5", "3", "2", "0", "1", "6", "X", "X", "X", "X", "X", "X", "3", "0",
    "3", "2", " ", " ", "E", "D", "C", " ", " ", "1", "4", "4", " ", " ",
    "1", ",", "0", "0", "0", ".", "0", "0", " ", " ", "1", ",", "0", "0",
    "0", ".", "0", "0", " ", " ", "1", "8", ".", "0", "0", " ", " ", "9",
    "8", "2", ".", "0", "0", " ", " ", "0", "2", "/", "0", "2", "/", "2",
    "0", "2", "6">>

\* a data line whose parts are one space apart
NarrowLine ==
  <<"4", "1", "1", "1", "1", "1", "X", "X", "1", "1", "1", "1", " ", "E",
    "D", "C", " ", "1", "4", "4", " ", "1", "0", ".", "0", "0", " ", "1",
    "0", ".", "0", "0", " ", "0", ".", "1", "0", " ", "9", ".", "9", "0",
    " ", "0", "2", "/", "0", "2", "/", "2", "0", "2", "6", " ", "0", "1",
    "2", "3", "4", "5", " ", "7">>

MerchantLine ==
  <<"M", "E", "R", "C", "H", "A", "N", "T", " ", "N", "U", "M", "B", "E",
    "R", " ", " ", " ", " ", " ", " ", ":", "3", "0", "1", "0", "1", "4",
    "7">>

MerchantLineLower ==
  <<"M", "e", "r", "c", "h", "a", "n", "t", " ", "N", "u", "m", "b", "e",
    "r", " ", ":", " ", "4", "2">>

HeaderLine ==
  <<" ", " ", "V", "i", "s", "a", " ", "/", " ", "M", "a", "s", "t", "e",
    "r", " ", "T", "r", "a", "n", "s", "a", "c", "t", "i", "o", "n", "s">>

SeparatorLine ==
  <<"=", "=", "=", "=", "=", "=", "=", "=", "=", "=">>

\* a data line with a MERCHANT NUMBER label in its tenth part
DataMerchantLine ==
  <<"4", "1", "1", "1", "1", "1", "X", "X", "1", "1", "1", "1", " ", " ",
    "E", "D", "C", " ", " ", "1", "4", "4", " ", " ", "2", "0", ".", "0",
    "0", " ", " ", "2", "0", ".", "0", "0", " ", " ", "0", ".", "5", "0",
    " ", " ", "1", "9", ".", "5", "0", " ", " ", "0", "2", "/", "0", "2",
    "/", "2", "0", "2", "6", " ", " ", "B", "2", " ", " ", "M", "E", "R",
    "C", "H", "A", "N", "T", " ", "N", "U", "M", "B", "E", "R", ":", "7">>

\* a data line with the separator in its tenth part
MarkedDataLine ==
  <<"4", "1", "1", "1", "1", "1", "X", "X", "1", "1", "1", "1", " ", " ",
    "E", "D", "C", " ", " ", "1", "4", "4", " ", " ", "2", "0", ".", "0",
    "0", " ", " ", "2", "0", ".", "0", "0", " ", " ", "0", ".", "5", "0",
    " ", " ", "1", "9", ".", "5", "0", " ", " ", "0", "2", "/", "0", "2",
    "/", "2", "0", "2", "6", " ", " ", "C", "3", " ", " ", "=", "=", "=",
    "=", "=">>

\* a separator line with a MERCHANT NUMBER label on it
MarkedMerchantLine ==
  <<"=", "=", "=", "=", "=", " ", "M", "E", "R", "C", "H", "A", "N", "T",
    " ", "N", "U", "M", "B", "E", "R", " ", ":", " ", "9", " ", "=", "=",
    "=", "=", "=">>

StatementLines ==
  {ExampleLine, PaddedLine, ShortLine, NarrowLine, MerchantLine,
   MerchantLineLower, HeaderLine, SeparatorLine, DataMerchantLine,
   MarkedDataLine, MarkedMerchantLine}

\* lines.join('\n')
RECURSIVE JoinLines(_)
JoinLines(lines) ==
  IF lines = <<>> THEN <<>>
  ELSE IF Len(lines) = 1 THEN lines[1]
  ELSE lines[1] \o <<"\n">> \o JoinLines(Tail(lines))

StatementTexts == {JoinLines(ls) : ls \in SeqsUpTo(StatementLines, MaxLines)}

InitParse ==
  /\ content \in StatementTexts
  /\ pc = "text"
  /\ excelData = <<>>
  /\ msgTransactions = <<>>
  /\ Idle
  /\ excelFile = NoExcelFile
  /\ msgFiles = <<>>
  /\ NoRun

\* const transactions = parseMsgContent(normalizedText);
\* msgTransactions.push(...transactions);
ParseText ==
  /\ pc = "text"
  /\ msgTransactions' = msgTransactions \o parseMsgContent(content)
  /\ pc' = "parsed"
  /\ UNCHANGED <<excelData, uniqueMsgTransactions, matchedAuthIds, updatedData,
                 result, resultAgain, content>>
  /\ UNCHANGED runVars

NextParse == ParseText

SpecParse == InitParse /\ [][NextParse]_vars

-----------------------------------------------------------------------------
(* The statement-message helpers of utils/parser.ts.                       *)

\* the character U+0000
Nul == "NUL"

\* content.replace(/\u0000/g, '')
normalizeMessageContent(text) == SelectSeq(text, LAMBDA c : c # Nul)

\* \s in a text of several lines
IsWhite(c) == c = " " \/ c = "\n"

RECURSIVE SkipWhite(_, _)
SkipWhite(s, k) ==
  IF k <= Len(s) /\ IsWhite(s[k]) THEN SkipWhite(s, k + 1) ELSE k

\* \w
IsWordChar(c) ==
  \/ IsDigit(c)
  \/ c = "_"
  \/ \E k \in DOMAIN UpperLetters : c = UpperLetters[k] \/ c = LowerLetters[k]

\* the end of the run of decimal digits that starts at position k
RECURSIVE DigitsEnd(_, _)
DigitsEnd(s, k) == IF k <= Len(s) /\ IsDigit(s[k]) THEN DigitsEnd(s, k + 1) ELSE k

\* /Nations Trust|Merchant E-\s*Statement|ntb<Merchant ID>/i.test(content)
isNtbStatementContent(text) ==
  \E low \in {ToLowerCase(text)} :
    \/ Includes(low, <<"n", "a", "t", "i", "o", "n", "s", " ", "t", "r", "u", "s", "t">>)
    \/ \E k \in 1..Len(low) :
         /\ OccursAt(low, k, <<"m", "e", "r", "c", "h", "a", "n", "t", " ", "e", "-">>)
         /\ OccursAt(low, SkipWhite(low, k + 11),
                     <<"s", "t", "a", "t", "e", "m", "e", "n", "t">>)
    \/ Includes(low, <<"n", "t", "b", "<", "m", "e", "r", "c", "h", "a", "n", "t",
                       " ", "i", "d", ">">>)

\* the capture of the leftmost match, <<>> (null) without a match; MatchAt(k)
\* is the capture of the match that starts at position k
LeftmostMatch(n, MatchAt(_)) ==
  LET hits == {k \in 1..n : MatchAt(k) # <<>>}
  IN  IF hits = {} THEN <<>>
      ELSE MatchAt(CHOOSE k \in hits : \A h \in hits : k <= h)

AttachmentLabel ==
  <<"x", "-", "f", "e", "-", "a", "t", "t", "a", "c", "h", "m", "e", "n", "t",
    "-", "n", "a", "m", "e", ":">>

\* low.match(/x-fe-attachment-name:\s*([^\r\n]+\.pdf)/) at position k, the
\* capture taken from text: up to the last ".pdf" of the line
AttachmentMatchAt(text, low, k) ==
  LET from == SkipWhite(low, k + Len(AttachmentLabel))
      eol == FirstFrom(low, from, LAMBDA i : low[i] = "\n")
      ends == {e \in (from + 4)..(eol - 1) :
                 OccursAt(low, e - 3, <<".", "p", "d", "f">>)}
  IN  IF OccursAt(low, k, AttachmentLabel) /\ ends # {}
      THEN SubSeq(text, from, CHOOSE e \in ends : \A h \in ends : h <= e)
      ELSE <<>>

\* normalized.match(/X-FE-Attachment-Name:\s*([^\r\n]+\.pdf)/i)?.[1]?.trim()
AttachmentNameOf(text) ==
  With(ToLowerCase(text),
       LAMBDA low :
         Trim(LeftmostMatch(Len(low), LAMBDA k : AttachmentMatchAt(text, low, k))))

StatementSuffix ==
  <<"s", "t", "a", "t", "e", "m", "e", "n", "t", ".", "p", "d", "f">>

\* low.match(/\b(\d{8,})_\d{8,}statement\.pdf\b/) at position k
StatementNameMatchAt(source, low, k) ==
  LET first == DigitsEnd(low, k)
      second == DigitsEnd(low, first + 1)
      after == second + Len(StatementSuffix)
  IN  IF /\ k = 1 \/ ~IsWordChar(low[k - 1])
         /\ first - k >= 8
         /\ first <= Len(low) /\ low[first] = "_"
         /\ second - (first + 1) >= 8
         /\ OccursAt(low, second, StatementSuffix)
         /\ after > Len(low) \/ ~IsWordChar(low[after])
      THEN SubSeq(source, k, first - 1)
      ELSE <<>>

\* source.match(/\b(\d{8,})_\d{8,}Statement\.pdf\b/i)?.[1]
StatementNameMerchant(source) ==
  With(ToLowerCase(source),
       LAMBDA low :
         LeftmostMatch(Len(low), LAMBDA k : StatementNameMatchAt(source, low, k)))

\* low.match(/account\s*number\s*:?\s*(\d{8,})/) at position k
AccountNumberMatchAt(source, low, k) ==
  LET number == SkipWhite(low, k + 7)
      colon == SkipWhite(low, number + 6)
      from == SkipWhite(low, IF colon <= Len(low) /\ low[colon] = ":"
                             THEN colon + 1 ELSE colon)
      to == DigitsEnd(low, from)
  IN  IF /\ OccursAt(low, k, <<"a", "c", "c", "o", "u", "n", "t">>)
         /\ OccursAt(low, number, <<"n", "u", "m", "b", "e", "r">>)
         /\ to - from >= 8
      THEN SubSeq(source, from, to - 1)
      ELSE <<>>

\* source.match(/Account\s*Number\s*:?\s*(\d{8,})/i)?.[1]
AccountNumberOf(source) ==
  With(ToLowerCase(source),
       LAMBDA low :
         LeftmostMatch(Len(low), LAMBDA k : AccountNumberMatchAt(source, low, k)))

\* [attachmentName, fallbackName, normalized].filter(Boolean).join('\n')
SourceForMerchantId(attachmentName, fallbackName, normalized) ==
  JoinLines(SelectSeq(<<attachmentName, fallbackName, normalized>>,
                      LAMBDA s : s # <<>>))

\* { attachmentName, merchantId }, <<>> standing for null
extractNtbMessageMetadata(text, fallbackName) ==
  With(normalizeMessageContent(text),
       LAMBDA normalized :
         With(AttachmentNameOf(normalized),
              LAMBDA attachmentName :
                [attachmentName |-> attachmentName,
                 merchantId |->
                   With(SourceForMerchantId(attachmentName, fallbackName, normalized),
                        LAMBDA source :
                          With(StatementNameMerchant(source),
                               LAMBDA byName :
                                 IF byName # <<>> THEN byName
                                 ELSE AccountNumberOf(source)))]))

\* `ntb${merchantId}`
buildNtbPdfPassword(merchantId) == <<"n", "t", "b">> \o merchantId

\* what the document reader finds in the bytes of a PDF: whether they are a
\* PDF at all, the password they are encrypted with (<<>> when they are not),
\* whether reading a page fails, and the text of the pages as the account
\* number and the rows of the statement table
NoPdf ==
  [valid |-> FALSE, password |-> <<>>, damaged |-> FALSE,
   accountNumber |-> <<>>, rows |-> <<>>]

\* extractPdfTextWithPassword: the text, or the message of the Error thrown
extractPdfTextWithPassword(file, password) ==
  LET doc == file.pdf
  IN  IF ~doc.valid THEN [error |-> "NTB_PDF_INVALID", text |-> NoPdf]
      ELSE IF doc.password # <<>> /\ doc.password # password
      THEN [error |-> "NTB_PDF_PASSWORD_FAILED", text |-> NoPdf]
      ELSE IF doc.damaged THEN [error |-> "Unexpected server response", text |-> NoPdf]
      ELSE [error |-> "", text |-> doc]

\* parseNtbPdfContent(content, merchantIdFallback)
parseNtbPdfContent(text, merchantIdFallback) ==
  LET merchantNumber ==
        IF text.accountNumber # <<>> THEN text.accountNumber
        ELSE merchantIdFallback
  IN  [k \in DOMAIN text.rows |->
         [merchantNumber |-> merchantNumber,
          cardNumber |-> text.rows[k].cardNumber,
          tranAmount |-> text.rows[k].tranAmount,
          commission |-> text.rows[k].commission,
          netAmount |-> text.rows[k].tranAmount - text.rows[k].commission,
          authId |-> text.rows[k].authId]]

NoContainer == [ok |-> FALSE, attachments |-> <<>>]

\* a File: its name, whether its text can be read, its text, what MsgReader
\* finds in it and what the document reader finds in it
FileOf(name, text, container, pdf) ==
  [name |-> name, readable |-> TRUE, text |-> text, container |-> container,
   pdf |-> pdf]

NoFile == [found |-> FALSE, file |-> FileOf(<<>>, <<>>, NoContainer, NoPdf)]

IsPdfName(name) == EndsWith(ToLowerCase(name), <<".", "p", "d", "f">>)

\* msgFiles.filter(file => file.name.toLowerCase().endsWith('.pdf'))
PdfFilesOf(files) == SelectSeq(files, LAMBDA f : IsPdfName(f.name))

\* files.find(test)
Find(files, test(_)) ==
  LET hits == {k \in DOMAIN files : test(files[k])}
  IN  IF hits = {} THEN NoFile
      ELSE [found |-> TRUE,
            file |-> files[CHOOSE k \in hits : \A h \in hits : k <= h]]

\* pdfFilesByName.get(name): of the PDFs with this lower-case name, the last
MapGetPdf(pdfFiles, name) ==
  LET hits == {k \in DOMAIN pdfFiles : ToLowerCase(pdfFiles[k].name) = name}
  IN  IF hits = {} THEN NoFile
      ELSE [found |-> TRUE,
            file |-> pdfFiles[CHOOSE k \in hits : \A h \in hits : h <= k]]

findNtbPdfFile(pdfFiles, attachmentName, merchantId) ==
  LET byName ==
        IF attachmentName # <<>>
        THEN MapGetPdf(pdfFiles, ToLowerCase(attachmentName))
        ELSE NoFile
      byMerchant ==
        IF merchantId # <<>>
        THEN Find(pdfFiles,
                  LAMBDA f : /\ Includes(ToLowerCase(f.name), ToLowerCase(merchantId))
                             /\ EndsWith(ToLowerCase(f.name), StatementSuffix))
        ELSE NoFile
  IN  IF byName.found THEN byName ELSE byMerchant

\* extractPdfAttachmentFromMsg(file, preferredAttachmentName)
extractPdfAttachmentFromMsg(file, preferredAttachmentName) ==
  LET preferredName == ToLowerCase(preferredAttachmentName)
      attachments == file.container.attachments
      named == Find(attachments,
                    LAMBDA a : ToLowerCase(a.name) = preferredName)
      selected == IF named.found THEN named
                  ELSE Find(attachments, LAMBDA a : IsPdfName(a.name))
  IN  IF ~file.container.ok \/ ~selected.found THEN NoFile
      ELSE IF ~selected.file.readable THEN NoFile
      ELSE [found |-> TRUE,
            file |-> FileOf(IF selected.file.name # <<>> THEN selected.file.name
                            ELSE <<"a", "t", "t", "a", "c", "h", "m",
                                   "e", "n", "t", ".", "p", "d", "f">>,
                            <<>>, NoContainer, selected.file.pdf)]

-----------------------------------------------------------------------------
(* handleProcess of App.tsx: one step per file of each of its two loops.   *)

\* the ParseIssue `Skipped ${file}: ...`, by the sentence that ends it
Issue(fileName, kind, pdfName) ==
  [file |-> fileName, kind |-> kind, pdf |-> pdfName]

\* one call of a parser or of the document reader, for the record
Call(at, op, pdfName, outcome, count) ==
  [at |-> at, op |-> op, pdf |-> pdfName, outcome |-> outcome, count |-> count]

\* what one turn of a loop adds to the locals of handleProcess
Turn(newIssues, transactions, consumed, newCalls) ==
  [issues |-> newIssues, transactions |-> transactions, consumed |-> consumed,
   calls |-> newCalls]

\* every error but a password failure is reported as an invalid PDF
IssueOfPdfError_TwoKinds(fileName, pdfName, message) ==
  IF message = "NTB_PDF_PASSWORD_FAILED"
  THEN Issue(fileName, "failed to open with password", pdfName)
  ELSE Issue(fileName, "is not a valid PDF", pdfName)

\* the issue pushed in catch (pdfError)
IssueOfPdfError(fileName, pdfName, message) ==
  IF message = "NTB_PDF_PASSWORD_FAILED"
  THEN Issue(fileName, "failed to open with password", pdfName)
  ELSE IF message = "NTB_PDF_INVALID"
  THEN Issue(fileName, "is not a valid PDF", pdfName)
  ELSE Issue(fileName, "unable to parse", pdfName)

\* lines 104-125: the resolved PDF is opened and parsed
StatementTurn(at, file, pdfFile, merchantId) ==
  LET pdfName == pdfFile.name
      password == buildNtbPdfPassword(merchantId)
  IN  With(extractPdfTextWithPassword(pdfFile, password),
           LAMBDA opened :
             With(parseNtbPdfContent(opened.text, merchantId),
                  LAMBDA transactions :
                    LET open == Call(at, "extractPdfTextWithPassword", pdfName,
                                     opened.error, 0)
                        parse == Call(at, "parseNtbPdfContent", pdfName, "",
                                      Len(transactions))
                    IN  IF opened.error # ""
                        THEN [skip |-> TRUE,
                              turn |-> Turn(<<IssueOfPdfError(file.name, pdfName,
                                                              opened.error)>>,
                                            <<>>, {}, <<open>>)]
                        ELSE IF transactions = <<>>
                        THEN [skip |-> TRUE,
                              turn |-> Turn(<<Issue(file.name,
                                                    "No transactions found",
                                                    pdfName)>>,
                                            <<>>, {}, <<open, parse>>)]
                        ELSE [skip |-> FALSE,
                              turn |-> Turn(<<>>, transactions,
                                            {ToLowerCase(pdfName)},
                                            <<open, parse>>)]))

\* lines 94-97: the uploaded PDF, or else the one inside the message
ResolvePdf(file, pdfFiles, metadata) ==
  With(findNtbPdfFile(pdfFiles, metadata.attachmentName, metadata.merchantId),
       LAMBDA uploaded :
         IF uploaded.found THEN uploaded
         ELSE extractPdfAttachmentFromMsg(file, metadata.attachmentName))

\* the block `if (isNtbFile) { ... }`; skip says that it ended in continue
NtbTurn(at, file, normalizedText, pdfFiles) ==
  With(extractNtbMessageMetadata(normalizedText, file.name),
       LAMBDA metadata :
         IF metadata.merchantId = <<>>
         THEN [skip |-> TRUE,
               turn |-> Turn(<<Issue(file.name, "NTB merchant ID not found", <<>>)>>,
                             <<>>, {}, <<>>)]
         ELSE With(ResolvePdf(file, pdfFiles, metadata),
                   LAMBDA pdfFile :
                     IF ~pdfFile.found
                     THEN [skip |-> TRUE,
                           turn |-> Turn(<<Issue(file.name,
                                                 "PDF attachment not found",
                                                 <<>>)>>,
                                         <<>>, {}, <<>>)]
                     ELSE StatementTurn(at, file, pdfFile.file,
                                        metadata.merchantId)))

\* the block of the fixed-width parser
SampathTurn(at, file, normalizedText) ==
  IF \/ Includes(normalizedText, <<"S", "A", "M", "P", "A", "T", "H">>)
     \/ Includes(ToUpperCase(file.name), <<"S", "A", "M", "P", "A", "T", "H">>)
  THEN With(parseMsgContent(normalizedText),
            LAMBDA transactions :
              Turn(<<>>, transactions, {},
                   <<Call(at, "parseMsgContent", <<>>, "", Len(transactions))>>))
  ELSE Turn(<<>>, <<>>, {}, <<>>)

\* one turn of `for (const file of msgFiles)` on a file whose text was read
LogFileTurn(at, file, pdfFiles) ==
  With(normalizeMessageContent(file.text),
       LAMBDA normalizedText :
         IF \/ isNtbStatementContent(normalizedText)
            \/ Includes(ToUpperCase(file.name),
                        <<"N", "A", "T", "I", "O", "N", "S">>)
         THEN With(NtbTurn(at, file, normalizedText, pdfFiles),
                   LAMBDA ntb :
                     IF ntb.skip THEN ntb.turn
                     ELSE With(SampathTurn(at, file, normalizedText),
                               LAMBDA sampath :
                                 Turn(ntb.turn.issues,
                                      ntb.turn.transactions
                                        \o sampath.transactions,
                                      ntb.turn.consumed,
                                      ntb.turn.calls \o sampath.calls)))
         ELSE SampathTurn(at, file, normalizedText))

\* lines 143-151: the PDF is opened and parsed with the password of its name
StandaloneOpen(at, pdfFile, merchantId) ==
  With(extractPdfTextWithPassword(pdfFile, buildNtbPdfPassword(merchantId)),
       LAMBDA opened :
         With(parseNtbPdfContent(opened.text, merchantId),
              LAMBDA transactions :
                LET open == Call(at, "extractPdfTextWithPassword", pdfFile.name,
                                 opened.error, 0)
                    parse == Call(at, "parseNtbPdfContent", pdfFile.name, "",
                                  Len(transactions))
                IN  IF opened.error # ""
                    THEN Turn(<<Issue(pdfFile.name,
                                      "failed to open with password pattern",
                                      <<>>)>>,
                              <<>>, {}, <<open>>)
                    ELSE Turn(<<>>, transactions, {}, <<open, parse>>)))

\* one turn of `for (const pdfFile of pdfFiles)`
StandaloneTurn(at, pdfFile, consumed) ==
  IF ToLowerCase(pdfFile.name) \in consumed THEN Turn(<<>>, <<>>, {}, <<>>)
  ELSE With(extractNtbMessageMetadata(<<>>, pdfFile.name),
            LAMBDA metadata :
              IF metadata.merchantId = <<>> THEN Turn(<<>>, <<>>, {}, <<>>)
              ELSE StandaloneOpen(at, pdfFile, metadata.merchantId))

IsLogName(name) ==
  \/ EndsWith(ToLowerCase(name), <<".", "t", "x", "t">>)
  \/ EndsWith(ToLowerCase(name), <<".", "m", "s", "g">>)

-----------------------------------------------------------------------------
(* The uploads of a run.                                                   *)

MaxFiles == 2

\* what the document reader finds in five PDFs: a statement of merchant
\* 10000001 opened by ntb10000001, a statement of merchant 10000002 without
\* an account number in its text, a statement without rows and without
\* password, a statement locked with another password and one whose pages
\* cannot be read
Documents ==
  LET row == [cardNumber |-> <<"4", "1", "1", "1", "X", "X", "1", "1", "1", "1">>,
              authId |-> <<"0", "7", "4", "6">>, tranAmount |-> 100000,
              commission |-> 1800]
      good == [valid |-> TRUE,
               password |-> <<"n", "t", "b", "1", "0", "0", "0", "0",
                              "0", "0", "1">>,
               damaged |-> FALSE,
               accountNumber |-> <<"1", "0", "0", "0", "0", "0", "0", "1">>,
               rows |-> <<row>>]
  IN  [good |-> good,
       embedded |->
         [good EXCEPT !.password = <<"n", "t", "b", "1", "0", "0", "0", "0",
                              "0", "0", "2">>,
                      !.accountNumber = <<>>],
       empty |-> [good EXCEPT !.password = <<>>, !.rows = <<>>],
       locked |->
         [good EXCEPT !.password = <<"n", "t", "b", "9", "9", "9", "9", "9",
                              "9", "9", "9">>],
       damaged |-> [good EXCEPT !.password = <<>>, !.damaged = TRUE]]

\* the files of the uploads.  An attachment of a message is a File too;
\* readable says that it has bytes.
\*   pdfStatement, pdfNamed, pdfLocked, pdfDamaged: the four uploaded PDFs
\*   logSampath: the fixed-width log of one transaction
\*   logSampathEmpty: a fixed-width log without a data line, by its name
\*   logNotes: neither a statement message nor a fixed-width log
\*   msgNamed: a statement message that names its attachment and carries two
\*   msgNoMerchant: a statement message without a merchant id
\*   msgEmbedded: a statement message that names no attachment; it carries a
\*     picture without a file name and a statement
\*   logBoth: a statement message by its name, a fixed-width log by its text
\*   msgUnreadable: a message whose text cannot be read
Uploads ==
  [pdfStatement |->
     FileOf(<<"1", "0", "0", "0", "0", "0", "0", "1", "_", "2", "0", "0",
              "0", "0", "0", "0", "1", "S", "t", "a", "t", "e", "m", "e",
              "n", "t", ".", "p", "d", "f">>,
            <<>>, NoContainer, Documents.good),
   pdfNamed |->
     FileOf(<<"S", "T", "M", "T", ".", "P", "D", "F">>, <<>>, NoContainer, Documents.empty),
   pdfLocked |->
     FileOf(<<"1", "0", "0", "0", "0", "0", "0", "1", "_", "2", "0", "0",
              "0", "0", "0", "0", "2", "s", "t", "a", "t", "e", "m", "e",
              "n", "t", ".", "P", "D", "F">>,
            <<>>, NoContainer, Documents.locked),
   pdfDamaged |->
     FileOf(<<"1", "0", "0", "0", "0", "0", "0", "2", "_", "2", "0", "0",
              "0", "0", "0", "0", "1", "S", "t", "a", "t", "e", "m", "e",
              "n", "t", ".", "p", "d", "f">>,
            <<>>, NoContainer, Documents.damaged),
   logSampath |->
     FileOf(<<"S", "A", "M", "P", "A", "T", "H", "_", "1", ".", "t", "x",
              "t">>,
            JoinLines(<<MerchantLine, ExampleLine>>), NoContainer, NoPdf),
   logSampathEmpty |->
     FileOf(<<"s", "a", "m", "p", "a", "t", "h", "_", "0", ".", "t", "x",
              "t">>,
            <<"n", "o", " ", "t", "r", "a", "n", "s", "a", "c", "t", "i",
              "o", "n", "s">>,
            NoContainer, NoPdf),
   logNotes |->
     FileOf(<<"n", "o", "t", "e", "s", ".", "t", "x", "t">>,
            <<"s", "e", "e", " ", "a", "t", "t", "a", "c", "h", "e", "d">>,
            NoContainer, NoPdf),
   msgNamed |->
     FileOf(<<"a", ".", "m", "s", "g">>,
            <<"N", "a", "t", "i", "o", "n", "s">> \o <<Nul>> \o
            <<" ", "T", "r", "u", "s", "t", " ", "B", "a", "n", "k",
              "\n", "X", "-", "F", "E", "-", "A", "t", "t", "a", "c",
              "h", "m", "e", "n", "t", "-", "N", "a", "m", "e", ":", " ",
              "S", "t", "m", "t", ".", "p", "d", "f", "\n", "A", "c",
              "c", "o", "u", "n", "t", " ", "N", "u", "m", "b", "e", "r",
              ":", " ", "1", "0", "0", "0", "0", "0", "0", "1">>,
            [ok |-> TRUE,
             attachments |->
               <<FileOf(<<"o", "t", "h", "e", "r", ".", "p", "d", "f">>,
                        <<>>, NoContainer, NoPdf),
                 FileOf(<<"s", "t", "m", "t", ".", "p", "d", "f">>,
                        <<>>, NoContainer, Documents.good)>>],
            NoPdf),
   msgNoMerchant |->
     FileOf(<<"b", ".", "m", "s", "g">>,
            <<"M", "e", "r", "c", "h", "a", "n", "t", " ", "E", "-", " ",
              "S", "t", "a", "t", "e", "m", "e", "n", "t">>,
            [ok |-> TRUE, attachments |-> <<>>], NoPdf),
   msgEmbedded |->
     FileOf(<<"c", ".", "m", "s", "g">>,
            <<"p", "a", "s", "s", "w", "o", "r", "d", ":", " ", "n", "t",
              "b", "<", "M", "e", "r", "c", "h", "a", "n", "t", " ", "I",
              "D", ">", "\n", "A", "c", "c", "o", "u", "n", "t", " ",
              "N", "u", "m", "b", "e", "r", " ", "1", "0", "0", "0", "0",
              "0", "0", "2">>,
            [ok |-> TRUE,
             attachments |->
               <<FileOf(<<>>, <<>>, NoContainer, NoPdf),
                 FileOf(<<"e", ".", "p", "d", "f">>, <<>>, NoContainer,
                        Documents.embedded)>>],
            NoPdf),
   logBoth |->
     FileOf(<<"N", "A", "T", "I", "O", "N", "S", "_", "1", ".", "t", "x",
              "t">>,
            JoinLines(<<<<"S", "A", "M", "P", "A", "T", "H", " ", "B",
                          "A", "N", "K", " ", " ", "A", "c", "c", "o",
                          "u", "n", "t", " ", "N", "u", "m", "b", "e",
                          "r", ":", " ", "1", "0", "0", "0", "0", "0",
                          "0", "1">>,
                        PaddedLine>>),
            NoContainer, NoPdf),
   msgUnreadable |->
     [FileOf(<<"g", "o", "n", "e", ".", "m", "s", "g">>, <<>>, NoContainer, NoPdf)
        EXCEPT !.readable = FALSE]]

UploadFiles == {Uploads[name] : name \in DOMAIN Uploads}

\* a workbook of one voucher
ExcelSheet ==
  [present |-> TRUE, readable |-> TRUE,
   rows |-> <<[Hash |-> Num(1),
               Voucher_No |-> Str(<<"0", "7", "4", "6", "8", "0">>),
               Total |-> Num(4)]>>]

\* a file that is not a workbook
ExcelBroken == [present |-> TRUE, readable |-> FALSE, rows |-> <<>>]

UploadBothMessage == "Please upload both the Excel file and the MSG folder."

NoTransactionsMessage == "No valid transactions found in the uploaded text files."

GenericMessage == "An error occurred during processing. Please check your files."

\* two folders of three files
Folders ==
  {<<Uploads.logSampath, Uploads.msgNoMerchant, Uploads.msgNamed>>,
   <<Uploads.msgNamed, Uploads.pdfStatement, Uploads.pdfNamed>>}

InitRun ==
  /\ \/ /\ excelFile = ExcelSheet
        /\ msgFiles \in SeqsUpTo(UploadFiles, MaxFiles) \cup Folders
     \/ /\ excelFile \in {NoExcelFile, ExcelBroken}
        /\ msgFiles \in SeqsUpTo({Uploads.logSampath}, 1)
  /\ pc = "idle"
  /\ excelData = <<>>
  /\ msgTransactions = <<>>
  /\ content = <<>>
  /\ Idle
  /\ NoRun

\* handleProcess without the workbook or without a file: only an error
RejectProcess ==
  /\ pc \in {"idle", "ended"}
  /\ ~excelFile.present \/ msgFiles = <<>>
  /\ error' = UploadBothMessage
  /\ UNCHANGED <<excelData, msgTransactions, pc, uniqueMsgTransactions,
                 matchedAuthIds, updatedData, result, resultAgain, content,
                 excelFile, msgFiles, isProcessing, fileIssues, issues,
                 consumedPdfNames, cursor, calls>>

\* the start of a run without setResult(null)
StartRun_KeepResult ==
  /\ pc \in {"idle", "ended"}
  /\ excelFile.present /\ msgFiles # <<>>
  /\ isProcessing' = TRUE
  /\ error' = "null"
  /\ fileIssues' = <<>>
  /\ pc' = "excel"
  /\ excelData' = <<>>
  /\ msgTransactions' = <<>>
  /\ uniqueMsgTransactions' = <<>>
  /\ matchedAuthIds' = {}
  /\ updatedData' = <<>>
  /\ issues' = <<>>
  /\ consumedPdfNames' = {}
  /\ cursor' = 0
  /\ calls' = <<>>
  /\ UNCHANGED <<result, resultAgain, content, excelFile, msgFiles>>

\* handleProcess up to await parseExcel(excelFile)
StartRun ==
  /\ pc \in {"idle", "ended"}
  /\ excelFile.present /\ msgFiles # <<>>
  /\ isProcessing' = TRUE
  /\ error' = "null"
  /\ result' = NoResult
  /\ fileIssues' = <<>>
  /\ pc' = "excel"
  /\ excelData' = <<>>
  /\ msgTransactions' = <<>>
  /\ uniqueMsgTransactions' = <<>>
  /\ matchedAuthIds' = {}
  /\ updatedData' = <<>>
  /\ issues' = <<>>
  /\ consumedPdfNames' = {}
  /\ cursor' = 0
  /\ calls' = <<>>
  /\ UNCHANGED <<resultAgain, content, excelFile, msgFiles>>

\* the catch block without the finally block
Caught_NoFinally ==
  /\ error' = GenericMessage
  /\ isProcessing' = isProcessing
  /\ pc' = "ended"

\* catch (err) { setError(...) } finally { setIsProcessing(false) }
Caught ==
  /\ error' = GenericMessage
  /\ isProcessing' = FALSE
  /\ pc' = "ended"

\* parseExcel settles: the rows of the sheet, or a rejection
ParseExcel ==
  /\ pc = "excel"
  /\ \/ /\ excelFile.readable
        /\ excelData' = excelFile.rows
        /\ cursor' = 1
        /\ pc' = "running"
        /\ UNCHANGED <<isProcessing, error>>
     \/ /\ ~excelFile.readable
        /\ Caught
        /\ UNCHANGED <<excelData, cursor>>
  /\ UNCHANGED <<msgTransactions, uniqueMsgTransactions, matchedAuthIds,
                 updatedData, result, resultAgain, content, excelFile, msgFiles,
                 fileIssues, issues, consumedPdfNames, calls>>

\* a turn that pushes an issue starts msgTransactions afresh
Apply_DropEarlier(turn) ==
  /\ issues' = issues \o turn.issues
  /\ msgTransactions' = IF turn.issues # <<>> THEN <<>>
                        ELSE msgTransactions \o turn.transactions
  /\ consumedPdfNames' = consumedPdfNames \cup turn.consumed
  /\ calls' = calls \o turn.calls
  /\ cursor' = cursor + 1

\* the locals after a turn of a loop
Apply(turn) ==
  /\ issues' = issues \o turn.issues
  /\ msgTransactions' = msgTransactions \o turn.transactions
  /\ consumedPdfNames' = consumedPdfNames \cup turn.consumed
  /\ calls' = calls \o turn.calls
  /\ cursor' = cursor + 1

\* one turn of the loop over msgFiles
ProcessLogFile ==
  /\ pc = "running"
  /\ cursor <= Len(msgFiles)
  /\ LET file == msgFiles[cursor]
     IN  \/ /\ ~IsLogName(file.name)
            /\ Apply(Turn(<<>>, <<>>, {}, <<>>))
            /\ UNCHANGED <<pc, isProcessing, error>>
         \/ /\ IsLogName(file.name)
            /\ file.readable
            /\ \E pdfFiles \in {PdfFilesOf(msgFiles)} :
                 \E turn \in {LogFileTurn(cursor, file, pdfFiles)} : Apply(turn)
            /\ UNCHANGED <<pc, isProcessing, error>>
         \/ /\ IsLogName(file.name)
            /\ ~file.readable
            /\ Caught
            /\ UNCHANGED <<issues, msgTransactions, consumedPdfNames, calls,
                           cursor>>
  /\ UNCHANGED <<excelData, uniqueMsgTransactions, matchedAuthIds, updatedData,
                 result, resultAgain, content, excelFile, msgFiles, fileIssues>>

\* one turn of the loop over pdfFiles
ProcessStandalonePdf ==
  /\ pc = "running"
  /\ cursor > Len(msgFiles)
  /\ cursor <= Len(msgFiles) + Len(PdfFilesOf(msgFiles))
  /\ \E pdfFiles \in {PdfFilesOf(msgFiles)} :
       \E turn \in {StandaloneTurn(cursor, pdfFiles[cursor - Len(msgFiles)],
                                    consumedPdfNames)} : Apply(turn)
  /\ UNCHANGED <<excelData, pc, uniqueMsgTransactions, matchedAuthIds,
                 updatedData, result, resultAgain, content, excelFile, msgFiles,
                 isProcessing, error, fileIssues>>

\* msgTransactions.length never leaves zero
NoTransactions_Never(transactions) == FALSE

\* msgTransactions.length === 0
NoTransactions(transactions) == Len(transactions) = 0

\* after the loops: setFileIssues, then the error of an empty run or the
\* result of processFiles
Finish ==
  /\ pc = "running"
  /\ cursor > Len(msgFiles) + Len(PdfFilesOf(msgFiles))
  /\ fileIssues' = issues
  /\ \/ /\ NoTransactions(msgTransactions)
        /\ error' = NoTransactionsMessage
        /\ UNCHANGED <<uniqueMsgTransactions, matchedAuthIds, updatedData,
                       result>>
     \/ /\ ~NoTransactions(msgTransactions)
        /\ \E p \in {processFiles(excelData, msgTransactions)} :
             /\ uniqueMsgTransactions' = p.uniqueMsgTransactions
             /\ matchedAuthIds' = p.matchedAuthIds
             /\ updatedData' = p.mapped
             /\ result' = ResultOf(p)
        /\ UNCHANGED error
  /\ isProcessing' = FALSE
  /\ pc' = "ended"
  /\ UNCHANGED <<excelData, msgTransactions, resultAgain, content, excelFile,
                 msgFiles, issues, consumedPdfNames, cursor, calls>>

\* handleReset, between two runs: every piece of state back to its first
\* value; the locals of the finished run are gone
handleReset ==
  /\ pc \in {"idle", "ended"}
  /\ excelFile' = NoExcelFile
  /\ msgFiles' = <<>>
  /\ result' = NoResult
  /\ error' = "null"
  /\ fileIssues' = <<>>
  /\ pc' = "idle"
  /\ excelData' = <<>>
  /\ msgTransactions' = <<>>
  /\ uniqueMsgTransactions' = <<>>
  /\ matchedAuthIds' = {}
  /\ updatedData' = <<>>
  /\ issues' = <<>>
  /\ consumedPdfNames' = {}
  /\ cursor' = 0
  /\ calls' = <<>>
  /\ UNCHANGED <<resultAgain, content, isProcessing>>

\* onFileSelect={setExcelFile}, a workbook dropped on the empty slot
SelectExcelFile ==
  /\ pc = "idle"
  /\ ~excelFile.present
  /\ excelFile' \in {ExcelSheet, ExcelBroken}
  /\ UNCHANGED <<excelData, msgTransactions, pc, uniqueMsgTransactions,
                 matchedAuthIds, updatedData, result, resultAgain, content,
                 msgFiles, isProcessing, error, fileIssues, issues,
                 consumedPdfNames, cursor, calls>>

\* onFilesSelect={(files) => setMsgFiles(prev => [...prev, ...files])}, a
\* folder dropped on the empty list
SelectFolder ==
  /\ pc = "idle"
  /\ msgFiles = <<>>
  /\ \E files \in SeqsUpTo(UploadFiles, MaxFiles) \cup Folders :
       /\ Len(files) > 0
       /\ msgFiles' = msgFiles \o files
  /\ UNCHANGED <<excelData, msgTransactions, pc, uniqueMsgTransactions,
                 matchedAuthIds, updatedData, result, resultAgain, content,
                 excelFile, isProcessing, error, fileIssues, issues,
                 consumedPdfNames, cursor, calls>>

NextRun ==
  \/ RejectProcess
  \/ StartRun
  \/ ParseExcel
  \/ ProcessLogFile
  \/ ProcessStandalonePdf
  \/ Finish
  \/ handleReset
  \/ SelectExcelFile
  \/ SelectFolder

SpecRun == InitRun /\ [][NextRun]_vars

\* a step of a run as pc and cursor show it: ParseExcel, Finish and a
\* rejected read move pc, a turn of a loop moves the cursor by one
RunStep ==
  /\ pc \in {"excel", "running"}
  /\ pc' \in {"running", "ended"}
  /\ cursor' \in {cursor, cursor + 1}
  /\ pc' # pc \/ cursor' = cursor + 1

\* the continuation of handleProcess after each await runs once the awaited
\* promise has settled
RunContinues == WF_<<pc, cursor>>(RunStep)

SpecRunFair == SpecRun /\ RunContinues

-----------------------------------------------------------------------------
(* What the claims speak about, read off the state.                        *)

Range(f) == {f[i] : i \in DOMAIN f}

Returned == pc # "ready"

Table == result.updatedData

\* the rows of the table before the totals row
AugmentedBlock == SubSeq(Table, 1, Len(excelData))

\* the rows of the table behind the appendix header
AppendixBlock == SubSeq(Table, Len(excelData) + 1 + 5 + 1 + 1, Len(Table))

\* the transactions that survive deduplication, as distinct records
Deduplicated == Range(msgTransactions)

\* a row that carries the field values of transaction t
Carries(row, t) ==
  /\ row.AUTH = Str(t.authId)
  /\ row.MERCHANT_NUMBER = Str(t.merchantNumber)
  /\ row.CARD_NUMBER = Str(t.cardNumber)
  /\ row.TRX_AMT = Num(t.tranAmount)
  /\ row.COM_AMOUNT = Num(t.commission)
  /\ row.NET_AMT = Num(t.netAmount)

\* a mapped row that had a join hit (its amount columns are numbers)
IsHit(row) == row.TRX_AMT.t = "number"

RowsWithAuth(block, authId) ==
  {i \in 1..Len(block) : block[i].AUTH = Str(authId)}

-----------------------------------------------------------------------------
\* C1: the returned table has exactly len(excelData) + 1 + 5 + 1 + U rows,
\* U being the number of deduplicated transactions whose authId is not the
\* authId of any join hit.
C1_RowCount ==
  Returned =>
    Len(Table) = Len(excelData) + 1 + 5 + 1
      + Cardinality({t \in Deduplicated : t.authId \notin matchedAuthIds})

\* a run of two rows with a join hit and a transaction left for the appendix
C1_Witness ==
  /\ Returned
  /\ matchedAuthIds # {}
  /\ Cardinality({t \in Deduplicated : t.authId \notin matchedAuthIds}) = 1
  /\ Len(excelData) = 2
  /\ Len(Table) = 10

\* C2 as stated: every non-empty authId of the deduplicated transactions is
\* in the AUTH column of exactly one row of the two blocks.
C2_ExactlyOnce ==
  Returned =>
    \A t \in Deduplicated :
      t.authId # <<>> =>
        Cardinality(RowsWithAuth(AugmentedBlock, t.authId))
          + Cardinality(RowsWithAuth(AppendixBlock, t.authId)) = 1

\* C2 as amended: every authId of the deduplicated transactions is in the
\* AUTH column of at least one row of the two blocks, and a non-empty authId
\* is in one block only: the augmented rows or the appendix, never both.
C2_AtLeastOnce ==
  Returned =>
    \A t \in Deduplicated :
      /\ RowsWithAuth(AugmentedBlock, t.authId)
           \cup RowsWithAuth(AppendixBlock, t.authId) # {}
      /\ t.authId # <<>> =>
           \/ RowsWithAuth(AugmentedBlock, t.authId) = {}
           \/ RowsWithAuth(AppendixBlock, t.authId) = {}

\* two spreadsheet rows carry the voucher of one transaction, so its authId
\* is in two augmented rows, and another transaction is in the appendix
C2_Witness ==
  /\ Returned
  /\ Cardinality(RowsWithAuth(AugmentedBlock, <<"7">>)) = 2
  /\ RowsWithAuth(AppendixBlock, <<"7">>) = {}
  /\ Cardinality(RowsWithAuth(AppendixBlock, <<"0", "7">>)) = 1

\* C3: every deduplicated transaction (with an authId to join on) has its
\* own field values in a row of the augmented block or of the appendix, also
\* when another deduplicated transaction has the same authId.
C3_NoTransactionDropped ==
  Returned =>
    \A t \in Deduplicated :
      \/ t.authId = <<>>
      \/ \E i \in 1..Len(AugmentedBlock) : Carries(AugmentedBlock[i], t)
      \/ \E i \in 1..Len(AppendixBlock) : Carries(AppendixBlock[i], t)

\* C4: processFiles(R, T) and processFiles(R, T concatenated with T) return
\* the same table and the same summary.
C4_DedupIdempotent ==
  pc = "done" => resultAgain = result

\* both runs returned for a list of two different transactions, one a join
\* hit and one in the appendix, and the doubled list gave the same result
C4_Witness ==
  /\ pc = "done"
  /\ Len(msgTransactions) = 2
  /\ Cardinality(Deduplicated) = 2
  /\ result.summary.matchedCount = 1
  /\ Len(AppendixBlock) = 1
  /\ resultAgain = result

\* the transaction a mapped row was augmented from
HitOf(row) ==
  [merchantNumber |-> row.MERCHANT_NUMBER.s, cardNumber |-> row.CARD_NUMBER.s,
   tranAmount |-> row.TRX_AMT.n, commission |-> row.COM_AMOUNT.n,
   netAmount |-> row.NET_AMT.n, authId |-> row.AUTH.s]

\* the deduplicated transactions that are the join hit of some row
MatchedTransactions ==
  {HitOf(updatedData[i]) : i \in {j \in 1..Len(updatedData) : IsHit(updatedData[j])}}

RECURSIVE SumTranAmount(_)
SumTranAmount(ts) ==
  IF ts = {} THEN 0
  ELSE LET t == CHOOSE x \in ts : TRUE
       IN  t.tranAmount + SumTranAmount(ts \ {t})

RECURSIVE SumTrxColumn(_)
SumTrxColumn(rows) ==
  IF rows = <<>> THEN 0
  ELSE (IF IsHit(Head(rows)) THEN Head(rows).TRX_AMT.n ELSE 0)
         + SumTrxColumn(Tail(rows))

\* C5 as stated: summary.totalTrx is the sum of tranAmount over the matched
\* transactions, each transaction once (stated for the runs whose join hits
\* all carry an authId).
C5_TotalTrxOverTransactions ==
  (Returned /\ <<>> \notin matchedAuthIds) =>
    result.summary.totalTrx = SumTranAmount(MatchedTransactions)

\* C5 as amended: summary.totalTrx is the sum of tranAmount over the
\* spreadsheet rows that have a join hit, so a transaction that is the hit of
\* k rows is counted k times (the total of the TRX.AMT column).
C5_TotalTrxOverRows ==
  Returned => result.summary.totalTrx = SumTrxColumn(AugmentedBlock)

\* two rows resolve to the same transaction and its amount is counted twice
C5_Witness ==
  /\ Returned
  /\ Len(excelData) = 2
  /\ Cardinality(MatchedTransactions) = 1
  /\ result.summary.totalTrx = 10

\* C6: summary.matchedCount is the number of augmented rows whose AUTH
\* column is not blank.
C6_MatchedCount ==
  Returned =>
    result.summary.matchedCount
      = Cardinality({i \in 1..Len(AugmentedBlock) : AugmentedBlock[i].AUTH # Blank})

\* the i-th mapped row is augmented from a transaction with this authId
AugmentedFrom(i, authId) ==
  /\ IsHit(updatedData[i])
  /\ updatedData[i].AUTH = Str(authId)
  /\ HitOf(updatedData[i]) \in Deduplicated

\* C7: a row whose voucher is a string starting with '0' is augmented from a
\* transaction whose authId equals the voucher whenever there is one; only
\* when there is none, from a transaction whose authId is the voucher without
\* its leading zeros; and it stays blank when there is neither.
C7_LeadingZeroFallback ==
  Returned =>
    \A i \in 1..Len(excelData) :
      LET v == excelData[i].Voucher_No
          exact == {t \in Deduplicated : t.authId = v.s}
          stripped == {t \in Deduplicated : t.authId = StripLeadingZeros(v.s)}
      IN  (v.t = "string" /\ StartsWithZero(v.s)) =>
            /\ updatedData[i].Hash = excelData[i].Hash
            /\ exact # {} => AugmentedFrom(i, v.s)
            /\ (exact = {} /\ stripped # {}) =>
                 AugmentedFrom(i, StripLeadingZeros(v.s))
            /\ (exact = {} /\ stripped = {}) => ~IsHit(updatedData[i])

\* voucher "07" is augmented from authId "7" in a run without authId "07",
\* next to a row of the same sheet that found nothing
C7_Witness ==
  /\ Returned
  /\ \E i \in 1..Len(excelData) :
       /\ excelData[i].Voucher_No = Str(<<"0", "7">>)
       /\ AugmentedFrom(i, <<"7">>)
  /\ \E i \in 1..Len(excelData) :
       /\ excelData[i].Voucher_No = Str(<<"0">>)
       /\ ~IsHit(updatedData[i])

\* C9: the table is the augmented rows, one totals row labelled "TOTAL" with
\* the four sums of the summary, five rows with every column blank, the
\* appendix header, then the unmatched rows.
C9_Layout ==
  Returned =>
    LET n == Len(excelData)
        totals == Table[n + 1]
    IN  /\ Len(Table) >= n + 7
        /\ \A i \in 1..n : Table[i].Hash.t = "number"
        /\ totals.Voucher_No = Str(<<"T", "O", "T", "A", "L">>)
        /\ totals.Total = Num(result.summary.totalExisting)
        /\ totals.TRX_AMT = Num(result.summary.totalTrx)
        /\ totals.COM_AMOUNT = Num(result.summary.totalCommission)
        /\ totals.NET_AMT = Num(result.summary.totalNet)
        /\ \A i \in (n + 2)..(n + 6) :
             \A c \in DOMAIN Table[i] : Table[i][c] = Blank
        /\ Table[n + 7] = UnmatchedHeaderRow
        /\ \A i \in (n + 8)..Len(Table) :
             /\ Table[i].Hash = Blank
             /\ Table[i].Voucher_No = Blank
             /\ \E t \in Deduplicated :
                  t.authId \notin matchedAuthIds /\ Carries(Table[i], t)

\* a table with two augmented rows, sums that are not zero and an appendix
C9_Witness ==
  /\ Returned
  /\ Len(excelData) = 2
  /\ result.summary.totalTrx > 0
  /\ result.summary.totalCommission > 0
  /\ Len(Table) > Len(excelData) + 7

\* the text of a cell as the comparator reads it
MerchantOf(row) == CellText(row.MERCHANT_NUMBER)

AuthOf(row) == CellText(row.AUTH)

\* row a has to come before row b: a has a merchant number and b has none,
\* or a's merchant number is the smaller number, or the merchant numbers
\* rank the same and a's authId ranks lower (no authId lowest)
GoesBefore(a, b) ==
  LET sameMerchant ==
        \/ MerchantOf(a) = <<>> /\ MerchantOf(b) = <<>>
        \/ /\ MerchantOf(a) # <<>>
           /\ MerchantOf(b) # <<>>
           /\ DigitsValue(MerchantOf(a)) = DigitsValue(MerchantOf(b))
  IN  \/ MerchantOf(a) # <<>> /\ MerchantOf(b) = <<>>
      \/ /\ MerchantOf(a) # <<>>
         /\ MerchantOf(b) # <<>>
         /\ DigitsValue(MerchantOf(a)) < DigitsValue(MerchantOf(b))
      \/ /\ sameMerchant
         /\ \/ AuthOf(a) = <<>> /\ AuthOf(b) # <<>>
            \/ /\ AuthOf(a) # <<>>
               /\ AuthOf(b) # <<>>
               /\ DigitsValue(AuthOf(a)) < DigitsValue(AuthOf(b))

Ordered(block) ==
  \A i \in 1..Len(block) : \A j \in 1..Len(block) :
    i < j => ~GoesBefore(block[j], block[i])

\* C8: the augmented block and the appendix block are each ordered by
\* merchant number as a number, rows without a merchant number last, rows of
\* one merchant number by authId as a number; and each block holds the rows
\* that went into its sort.
C8_BlocksOrdered ==
  Returned =>
    /\ Ordered(AugmentedBlock)
    /\ Ordered(AppendixBlock)
    /\ Range(AugmentedBlock) = Range(updatedData)
    /\ Range(AppendixBlock)
         = {UnmatchedRow(t) :
              t \in {x \in Deduplicated : x.authId \notin matchedAuthIds}}

\* the transactions with merchant numbers "10", "2", "", "10" come out of
\* the appendix sort as "2", "10", "10", "", the two "10" rows by authId
C8_Witness ==
  /\ Returned
  /\ excelData = <<>>
  /\ msgTransactions
       = <<LineA(<<"1", "0">>, <<"1", "0">>), LineA(<<"7">>, <<"2">>),
           LineA(<<"7">>, <<>>), LineA(<<"7">>, <<"1", "0">>)>>
  /\ AppendixBlock
       = <<UnmatchedRow(LineA(<<"7">>, <<"2">>)),
           UnmatchedRow(LineA(<<"7">>, <<"1", "0">>)),
           UnmatchedRow(LineA(<<"1", "0">>, <<"1", "0">>)),
           UnmatchedRow(LineA(<<"7">>, <<>>))>>

\* what the Total cell counts for: a number as itself, a string of digits
\* and thousands separators as the number it writes, anything else as zero
CountsFor(v) ==
  IF v.t = "number" THEN v.n
  ELSE IF v.t = "string" /\ RemoveCommas(v.s) # <<>>
          /\ \A i \in 1..Len(RemoveCommas(v.s)) : IsDigit(RemoveCommas(v.s)[i])
       THEN DigitsValue(RemoveCommas(v.s))
       ELSE 0

RECURSIVE SumTotalColumn(_)
SumTotalColumn(rows) ==
  IF rows = <<>> THEN 0
  ELSE CountsFor(Head(rows).Total) + SumTotalColumn(Tail(rows))

\* C10: summary.totalExisting is the sum over all spreadsheet rows, matched
\* or not, of what the row's Total counts for; a blank or non-numeric Total
\* counts for zero.
C10_TotalExisting ==
  Returned => result.summary.totalExisting = SumTotalColumn(excelData)

-----------------------------------------------------------------------------
(* parseMsgContent.                                                        *)

\* the transactions the statement layout prescribes for the data lines
ExampleTransaction ==
  [cardNumber |-> SubSeq(ExampleLine, 1, 16), tranAmount |-> 4990000,
   commission |-> 89820, netAmount |-> 4900180,
   authId |-> <<"0", "7", "4", "6", "8", "0">>]

PaddedTransaction ==
  [cardNumber |-> SubSeq(PaddedLine, 4, 15), tranAmount |-> 101050,
   commission |-> 1050, netAmount |-> 100000, authId |-> <<"A", "1">>]

DataMerchantTransaction ==
  [cardNumber |-> SubSeq(DataMerchantLine, 1, 12), tranAmount |-> 2000,
   commission |-> 50, netAmount |-> 1950, authId |-> <<"B", "2">>]

PositionalFields(t) ==
  [cardNumber |-> t.cardNumber, tranAmount |-> t.tranAmount,
   commission |-> t.commission, netAmount |-> t.netAmount, authId |-> t.authId]

\* the lines of the text with nine parts or more and no marker, in order
FullDataLines ==
  SelectSeq(SplitLines(content),
            LAMBDA l : l \in {ExampleLine, PaddedLine, DataMerchantLine})

\* C20: a data line is split, once trimmed, at every run of two or more white
\* spaces and read by position: part 0 is the card number, parts 3, 5 and 6
\* are the transaction amount, the commission and the net amount with their
\* thousands separators removed, part 8 is the authId; a data line of fewer
\* than nine parts gives no transaction.  The line of the statement layout
\* gives 49900.00, 898.20, 49001.80 and authId "074680".
C20_PositionalFields ==
  pc = "parsed" =>
    /\ Len(msgTransactions) = Len(FullDataLines)
    /\ \A k \in DOMAIN msgTransactions :
         PositionalFields(msgTransactions[k]) =
           IF FullDataLines[k] = ExampleLine THEN ExampleTransaction
           ELSE IF FullDataLines[k] = PaddedLine THEN PaddedTransaction
           ELSE DataMerchantTransaction

\* the example line, a short line and a padded line were parsed
C20_Witness ==
  /\ pc = "parsed"
  /\ content = JoinLines(<<ExampleLine, ShortLine, PaddedLine>>)
  /\ Len(msgTransactions) = 2
  /\ msgTransactions[1].tranAmount = 4990000
  /\ msgTransactions[2].authId = <<"A", "1">>

-----------------------------------------------------------------------------
(* handleProcess: what a run leaves behind.                                *)

\* the PDFs of the fallback loop
pdfFiles == PdfFilesOf(msgFiles)

\* both loops of the run are through
LoopsDone == cursor > Len(msgFiles) + Len(pdfFiles)

\* the calls of the document reader
Opens == {k \in DOMAIN calls : calls[k].op = "extractPdfTextWithPassword"}

\* the calls of a parser that gave transactions
Yields(op) == {k \in DOMAIN calls : calls[k].op = op /\ calls[k].count > 0}

\* C11: a run whose files gave no transaction at all ends with the error of
\* an empty run and without a result: processFiles is not called.
C11_EmptyRunIsAnError ==
  (pc = "ended" /\ LoopsDone /\ msgTransactions = <<>>) =>
    /\ error = NoTransactionsMessage
    /\ result = NoResult
    /\ uniqueMsgTransactions = <<>> /\ updatedData = <<>>
    /\ ~isProcessing

\* a run over a statement message without merchant id and a log without data
\* lines has ended
C11_Witness ==
  /\ pc = "ended"
  /\ msgFiles = <<Uploads.msgNoMerchant, Uploads.logSampathEmpty>>
  /\ msgTransactions = <<>>
  /\ error = NoTransactionsMessage
  /\ result = NoResult

\* the issues of the per-file failures
FileFailures ==
  {"NTB merchant ID not found", "PDF attachment not found",
   "failed to open with password", "is not a valid PDF", "No transactions found"}

\* this step pushed one issue
IssuePushed == Len(issues') = Len(issues) + 1

LastIssue == issues'[Len(issues')]

\* C12: a per-file failure (merchant id not found, attachment not found,
\* password failure, invalid document, no transaction in the statement) does
\* not abort the run: it becomes one issue that cites the file, the loop goes
\* on with the next file and the transactions and issues collected before
\* are kept.
C12_FileFailureDoesNotAbort ==
  [][(/\ pc = "running"
      /\ cursor <= Len(msgFiles)
      /\ IssuePushed
      /\ LastIssue.kind \in FileFailures)
       => /\ pc' = "running"
          /\ cursor' = cursor + 1
          /\ error' = "null"
          /\ isProcessing'
          /\ LastIssue.file = msgFiles[cursor].name
          /\ SubSeq(issues', 1, Len(issues)) = issues
          /\ msgTransactions' = msgTransactions]_vars

\* a log gave a transaction, the message after it failed, the message after
\* that one gave a transaction, and the run ended with a result
C12_Witness ==
  /\ pc = "ended"
  /\ msgFiles = <<Uploads.logSampath, Uploads.msgNoMerchant, Uploads.msgNamed>>
  /\ Len(msgTransactions) = 2
  /\ Len(fileIssues) = 1
  /\ fileIssues[1].file = Uploads.msgNoMerchant.name
  /\ result # NoResult

ClassifiedOutcomes == {"", "NTB_PDF_PASSWORD_FAILED", "NTB_PDF_INVALID"}

\* the calls of the document reader that ended in an unclassified error
UnclassifiedOpens == {k \in Opens : calls[k].outcome \notin ClassifiedOutcomes}

\* C13 as stated: once the document reader has failed with an error that is
\* neither a password failure nor an invalid document, the run is over with
\* the generic error and without a result.
C13_UnclassifiedAborts ==
  UnclassifiedOpens # {} =>
    /\ pc = "ended"
    /\ error = GenericMessage
    /\ result = NoResult

\* this step called the document reader and the call ended in an
\* unclassified error
UnclassifiedOpenInStep ==
  /\ Len(calls') = Len(calls) + 1
  /\ calls'[Len(calls')].op = "extractPdfTextWithPassword"
  /\ calls'[Len(calls')].outcome \notin ClassifiedOutcomes

\* C13, amended: an unclassified error of the document reader is caught at
\* the file like the classified ones.  The statement chain pushes the issue
\* "unable to parse", the standalone pass its "failed to open" issue; the
\* file is skipped and the run goes on without an error.
C13_UnclassifiedIsSkipped ==
  [][(pc = "running" /\ UnclassifiedOpenInStep)
       => /\ pc' = "running"
          /\ cursor' = cursor + 1
          /\ error' = "null"
          /\ IssuePushed
          /\ LastIssue.kind =
               IF cursor <= Len(msgFiles) THEN "unable to parse"
               ELSE "failed to open with password pattern"
          /\ msgTransactions' = msgTransactions]_vars

\* the damaged PDF was opened for its message and again on its own; the run
\* ended without the generic error
C13_Witness ==
  /\ pc = "ended"
  /\ msgFiles = <<Uploads.msgEmbedded, Uploads.pdfDamaged>>
  /\ Cardinality(UnclassifiedOpens) = 2
  /\ Len(fileIssues) = 2
  /\ fileIssues[1].kind = "unable to parse"
  /\ error = NoTransactionsMessage

\* C14: a PDF that was resolved for a statement message is not opened again
\* by the pass over the standalone PDFs, however its processing ended.
C14_ResolvedPdfNotReopened ==
  \A j, k \in Opens :
    (calls[j].at <= Len(msgFiles) /\ calls[k].at > Len(msgFiles))
      => ToLowerCase(calls[j].pdf) # ToLowerCase(calls[k].pdf)

\* the log files the first loop is through with
LogsDone ==
  {i \in 1..Len(msgFiles) :
     i < cursor /\ IsLogName(msgFiles[i].name) /\ msgFiles[i].readable}

\* the file is a statement message, by its text or by its name
IsStatementMessage(file) ==
  \/ isNtbStatementContent(normalizeMessageContent(file.text))
  \/ Includes(ToUpperCase(file.name), <<"N", "A", "T", "I", "O", "N", "S">>)

\* the file is a fixed-width log, by its text or by its name
IsFixedWidthLog(file) ==
  \/ Includes(normalizeMessageContent(file.text),
              <<"S", "A", "M", "P", "A", "T", "H">>)
  \/ Includes(ToUpperCase(file.name), <<"S", "A", "M", "P", "A", "T", "H">>)

Smallest(S) == CHOOSE k \in S : \A h \in S : k <= h

\* the names of the PDFs the resolution order allows for a statement message
\* with this metadata; {} when the order ends in null
AllowedPdfNames(file, metadata) ==
  LET name == ToLowerCase(metadata.attachmentName)
      merchant == ToLowerCase(metadata.merchantId)
      inside == IF file.container.ok THEN file.container.attachments ELSE <<>>
      uploadedByName ==
        {k \in DOMAIN pdfFiles :
           name # <<>> /\ ToLowerCase(pdfFiles[k].name) = name}
      uploadedByMerchant ==
        {k \in DOMAIN pdfFiles :
           /\ Includes(ToLowerCase(pdfFiles[k].name), merchant)
           /\ EndsWith(ToLowerCase(pdfFiles[k].name), StatementSuffix)}
      insideByName ==
        {k \in DOMAIN inside : name # <<>> /\ ToLowerCase(inside[k].name) = name}
      insidePdf == {k \in DOMAIN inside : IsPdfName(inside[k].name)}
  IN  IF uploadedByName # {} THEN {pdfFiles[k].name : k \in uploadedByName}
      ELSE IF uploadedByMerchant # {}
      THEN {pdfFiles[k].name : k \in uploadedByMerchant}
      ELSE IF insideByName # {} THEN {inside[Smallest(insideByName)].name}
      ELSE IF insidePdf # {} THEN {inside[Smallest(insidePdf)].name}
      ELSE {}

\* C15: the PDF of a statement message is, in this order, the uploaded PDF
\* with the extracted attachment name (whatever the case of the letters),
\* else an uploaded PDF whose name contains the merchant id and ends in
\* "statement.pdf", else the attachment inside the message with the
\* extracted name, otherwise (also when no name was extracted) the first
\* attachment with a PDF name; when there is none the issue "PDF attachment
\* not found" cites the message and nothing is opened.
C15_ResolutionPriority ==
  \A i \in LogsDone :
    \A metadata \in {extractNtbMessageMetadata(
                       normalizeMessageContent(msgFiles[i].text),
                       msgFiles[i].name)} :
      (IsStatementMessage(msgFiles[i]) /\ metadata.merchantId # <<>>) =>
        \A allowed \in {AllowedPdfNames(msgFiles[i], metadata)} :
          IF allowed = {}
          THEN /\ \E k \in DOMAIN issues :
                    /\ issues[k].file = msgFiles[i].name
                    /\ issues[k].kind = "PDF attachment not found"
               /\ \A k \in Opens : calls[k].at # i
          ELSE \E k \in Opens : calls[k].at = i /\ calls[k].pdf \in allowed

\* the file at place i of msgFiles gave a transaction: as a log to one of
\* the parser chains, as a PDF to a statement message or to the standalone
\* pass
GaveTransactions(i) ==
  \/ \E k \in DOMAIN calls : calls[k].at = i /\ calls[k].count > 0
  \/ \E k \in DOMAIN calls :
       /\ calls[k].count > 0
       /\ calls[k].pdf = msgFiles[i].name
       /\ IsPdfName(msgFiles[i].name)

\* C16: every uploaded file that was skipped (unrecognised format, missing
\* attachment, wrong password, corrupt document, no transaction from a
\* parser chain or from a standalone PDF) has an issue that cites it.
C16_SkippedFilesHaveIssue ==
  (pc = "ended" /\ LoopsDone) =>
    \A i \in DOMAIN msgFiles :
      ~GaveTransactions(i) =>
        \E k \in DOMAIN fileIssues : fileIssues[k].file = msgFiles[i].name

\* C17: the issues pushed during a run are the issues shown when it has
\* ended, whether with a result, with the error of an empty run or with the
\* generic error.
C17_IssuesSurfaced ==
  pc = "ended" =>
    /\ Len(fileIssues) >= Len(issues)
    /\ \A k \in DOMAIN issues : fileIssues[k] = issues[k]

\* C18: the transactions of a log file come from one parser chain, never
\* from both, and a file that is a fixed-width log goes through the
\* fixed-width parser however its statement processing ended.
C18_OneChainPerFile ==
  \A i \in LogsDone :
    /\ ~(/\ \E k \in Yields("parseNtbPdfContent") : calls[k].at = i
         /\ \E k \in Yields("parseMsgContent") : calls[k].at = i)
    /\ IsFixedWidthLog(msgFiles[i]) =>
         \E k \in DOMAIN calls :
           calls[k].at = i /\ calls[k].op = "parseMsgContent"

-----------------------------------------------------------------------------
(* processFiles and its arguments.                                         *)

-----------------------------------------------------------------------------
(* parseMsgContent: merchant numbers and markers.                          *)

\* the lines of the text that was parsed
ContentLines == SplitLines(content)

\* the line has the data-line pattern and at least nine parts
IsFullDataLine(line) ==
  \E t \in {Trim(line)} :
    StartsWithCardNumber(t) /\ Len(SplitWide(t)) >= 9

\* the line holds one of the two marker texts
IsMarked(line) == Includes(line, VisaMasterHeader) \/ Includes(line, TableMarker)

\* the places of the lines that gave a transaction, in their order
EmittingLines(lines) ==
  {k \in DOMAIN lines : IsFullDataLine(lines[k]) /\ ~IsMarked(lines[k])}

\* the place of the j-th line of S
RECURSIVE NthOf(_, _)
NthOf(S, j) ==
  IF j = 1 THEN Smallest(S) ELSE NthOf(S \ {Smallest(S)}, j - 1)

\* the digits of the most recent MERCHANT NUMBER line at or before line k
MerchantAt(lines, k) ==
  LET matching == {i \in 1..k : MerchantMatch(lines[i]).found}
  IN  IF matching = {} THEN <<>>
      ELSE MerchantMatch(lines[CHOOSE i \in matching :
                                 \A h \in matching : h <= i]).digits

\* C21: the merchant number of parseMsgContent is carried across lines:
\* every transaction has the digits of the most recent line, at or before
\* its data line, that matched MERCHANT NUMBER, and the empty string when
\* there is none; the transactions of the text without its last line are
\* the first transactions of the whole text (every text is checked, so this
\* holds line after line), so a later MERCHANT NUMBER line changes none of
\* them.
C21_MerchantNumberCarried ==
  pc = "parsed" =>
    \A lines \in {ContentLines} :
      \A emitting \in {EmittingLines(lines)} :
        /\ Len(msgTransactions) = Cardinality(emitting)
        /\ \A j \in DOMAIN msgTransactions :
             msgTransactions[j].merchantNumber
               = MerchantAt(lines, NthOf(emitting, j))
        /\ \A n \in {Len(lines) - 1} \cap Nat :
             \A first \in {parseMsgContent(JoinLines(SubSeq(lines, 1, n)))} :
               /\ Len(first) <= Len(msgTransactions)
               /\ first = SubSeq(msgTransactions, 1, Len(first))

\* the text has a data line between two MERCHANT NUMBER lines of different
\* digits, and its transaction has the digits of the first
C21_Witness ==
  /\ pc = "parsed"
  /\ Len(ContentLines) = 3
  /\ MerchantMatch(ContentLines[1]).found
  /\ ~MerchantMatch(ContentLines[2]).found
  /\ MerchantMatch(ContentLines[3]).found
  /\ MerchantMatch(ContentLines[3]).digits # MerchantMatch(ContentLines[1]).digits
  /\ Len(msgTransactions) = 1
  /\ msgTransactions[1].merchantNumber = MerchantMatch(ContentLines[1]).digits

\* C22: the markers do not gate the extraction: every line whose trimmed
\* form starts with the card-number pattern and has at least nine parts
\* gives one transaction, wherever the '=====' and 'Visa / Master
\* Transactions' lines are, also when the marker text is on the data line.
C22_MarkersDoNotGate ==
  pc = "parsed" =>
    Len(msgTransactions)
      = Cardinality({k \in DOMAIN ContentLines : IsFullDataLine(ContentLines[k])})

-----------------------------------------------------------------------------
(* processFiles: the index by authId.                                      *)

\* the last deduplicated transaction, in input order, with this authId
LastWithAuth(authId) ==
  uniqueMsgTransactions[
    CHOOSE k \in DOMAIN uniqueMsgTransactions :
      /\ uniqueMsgTransactions[k].authId = authId
      /\ \A h \in DOMAIN uniqueMsgTransactions :
           uniqueMsgTransactions[h].authId = authId => h <= k]

\* the sum of an amount of the last transactions over the rows with a join hit
RECURSIVE SumOfLast(_, _)
SumOfLast(rows, amount) ==
  IF rows = <<>> THEN 0
  ELSE (IF IsHit(Head(rows)) THEN LastWithAuth(Head(rows).AUTH.s)[amount] ELSE 0)
         + SumOfLast(Tail(rows), amount)

\* C23: the index by authId is last-write-wins: a row that joins on an
\* authId shared by several deduplicated transactions carries the merchant
\* number, the card number and the amounts of the last of them in input
\* order, and the running totals count the amounts of that transaction.
C23_LastWriteWins ==
  Returned =>
    /\ \A i \in DOMAIN updatedData :
         IsHit(updatedData[i]) =>
           Carries(updatedData[i], LastWithAuth(updatedData[i].AUTH.s))
    /\ result.summary.totalTrx
         = SumOfLast(updatedData, "tranAmount")
    /\ result.summary.totalCommission
         = SumOfLast(updatedData, "commission")
    /\ result.summary.totalNet
         = SumOfLast(updatedData, "netAmount")

\* two different transactions share authId "7"; the one row of the sheet
\* joins on it, carries the second and the totals are its amounts
C23_Witness ==
  /\ Returned
  /\ Len(excelData) = 1
  /\ uniqueMsgTransactions = <<LineA(<<"7">>, <<"2">>), LineB(<<"7">>, <<"1", "0">>)>>
  /\ Carries(updatedData[1], LineB(<<"7">>, <<"1", "0">>))
  /\ result.summary.totalTrx = 3
  /\ result.summary.totalCommission = 0
  /\ result.summary.totalNet = 3

\* the voucher has no leading zero: the string "7" or the number 7
IsPlainVoucher(v) == v = Str(<<"7">>) \/ v = Num(7)

\* the derived columns of the row are blank
DerivedBlank(row) ==
  /\ row.AUTH = Blank /\ row.MERCHANT_NUMBER = Blank /\ row.TRX_AMT = Blank
  /\ row.CARD_NUMBER = Blank /\ row.COM_AMOUNT = Blank /\ row.NET_AMT = Blank

\* C26: leading zeros are removed on the voucher side only: a row whose
\* voucher is "7" or 7 is never augmented from a transaction whose authId is
\* "07"; when no transaction has the authId "7" its derived columns stay
\* blank, and a transaction with authId "07" that no voucher "07" joins on
\* is a row of the unmatched appendix.
C26_NoZeroAddedToVoucher ==
  Returned =>
    \A i \in DOMAIN excelData :
      IsPlainVoucher(excelData[i].Voucher_No) =>
        /\ ~(IsHit(updatedData[i]) /\ updatedData[i].AUTH = Str(<<"0", "7">>))
        /\ (\A k \in DOMAIN uniqueMsgTransactions :
              uniqueMsgTransactions[k].authId # <<"7">>)
             => DerivedBlank(updatedData[i])
        /\ \A k \in DOMAIN uniqueMsgTransactions :
             (/\ uniqueMsgTransactions[k].authId = <<"0", "7">>
              /\ \A j \in DOMAIN excelData :
                   excelData[j].Voucher_No # Str(<<"0", "7">>))
               => \E r \in DOMAIN AppendixBlock :
                    Carries(AppendixBlock[r], uniqueMsgTransactions[k])

\* the sheet has the vouchers 7 and "7", the only transaction has authId
\* "07": both rows are blank and the transaction is in the appendix
C26_Witness ==
  /\ Returned
  /\ Len(excelData) = 2
  /\ excelData[1].Voucher_No = Num(7)
  /\ excelData[2].Voucher_No = Str(<<"7">>)
  /\ uniqueMsgTransactions = <<LineA(<<"0", "7">>, <<"2">>)>>
  /\ DerivedBlank(updatedData[1]) /\ DerivedBlank(updatedData[2])
  /\ Len(AppendixBlock) = 1
  /\ Carries(AppendixBlock[1], LineA(<<"0", "7">>, <<"2">>))

-----------------------------------------------------------------------------
(* handleProcess and handleReset: isProcessing, result and error.          *)

\* a step of handleProcess that found the workbook or the files missing
RejectedCall ==
  /\ pc \in {"idle", "ended"}
  /\ ~excelFile.present \/ msgFiles = <<>>
  /\ excelFile' = excelFile /\ msgFiles' = msgFiles
  /\ error' # error /\ error' # "null"

\* C24: a run that has set isProcessing to true sets it back to false, on
\* every path: with a result, with the error of an empty run, and when the
\* workbook cannot be decoded or a file cannot be read; a call without the
\* workbook or without files sets the error and leaves isProcessing false.
C24_ProcessingEnds ==
  /\ isProcessing ~> ~isProcessing
  /\ [](isProcessing <=> pc \in {"excel", "running"})
  /\ [][RejectedCall =>
          /\ error' = UploadBothMessage
          /\ ~isProcessing /\ ~isProcessing']_vars

\* a run has ended in the catch block and isProcessing is false again
C24_Witness ==
  /\ pc = "ended"
  /\ error = GenericMessage
  /\ cursor >= 1
  /\ ~isProcessing

\* C25: result and error are never both set: a run clears both when it
\* starts, leaves them cleared until it ends and then sets at most one of
\* them; the result is set only by a run with at least one transaction.
C25_ResultOrError ==
  /\ [](~(result # NoResult /\ error # "null"))
  /\ [](pc \in {"excel", "running"} => (result = NoResult /\ error = "null"))
  /\ [][(result' # result /\ result' # NoResult)
          => (pc = "running" /\ pc' = "ended" /\ Len(msgTransactions') > 0)]_vars

\* after a run with a result and a reset, handleProcess was called with
\* nothing uploaded: the error is set and there is no result
C25_Witness ==
  /\ pc = "idle"
  /\ excelFile = NoExcelFile
  /\ msgFiles = <<>>
  /\ error = UploadBothMessage
  /\ result = NoResult

====
